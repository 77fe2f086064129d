-------------------------- MODULE SequentialProofs --------------------------
(*****************************************************************************)
(* Proofs about the components that run in one thread: the linked list, the  *)
(* heap and the ring buffer for any number of nodes and any size, the        *)
(* predictors for any number of layers and any window, the Python managers   *)
(* of offloaded modules for any modules and any trace.                       *)
(*                                                                           *)
(* List: ChainInv says that there is a sequence of different nodes which the *)
(* pointers link, between the two guards and in both directions.  A walk     *)
(* along a chain is a recursive function: that it meets the k-th node in k   *)
(* steps would be an induction on k, for which the provers need a fixed      *)
(* formula; here the least k where the walk left the chain takes its place.  *)
(* The same least element serves for the loops of                            *)
(* build_predict_layer_mapping.                                              *)
(*                                                                           *)
(* What the list shows is that sequence, and a step appends to it or takes a *)
(* place out of it.                                                          *)
(*                                                                           *)
(* Heap: every node knows its place and the front has the least priority.    *)
(* Ring: what is between head and tail is the queue of TaskQueue's kind.     *)
(* Predictors: PredictLayers only grows, by the windows of the layers that   *)
(* predict; a job posts the slice of its mapping.                            *)
(*                                                                           *)
(* Managers (Python): ManagersInv follows the two streams of the device: the *)
(* last wait is behind every kernel that was launched, a copy into a buffer  *)
(* that a kernel still reads has a wait in front of it which that kernel     *)
(* holds up, and a job without a copy left holds its module.                 *)
(*****************************************************************************)
EXTENDS LinkedList, MinHeap, RingQueue, Predictors, PythonManagers,
        SequenceTheorems, FiniteSetTheorems, WellFoundedInduction, TLAPS

-----------------------------------------------------------------------------
(* The heap *)

(* The heap alone. *)
SpecHeap == InitHeap /\ [][NextHeap]_heapVars

-----------------------------------------------------------------------------
(* Lemmas about numbers and sequences *)

(* A set of natural numbers has a least element: what stands in for induction. *)
LEMMA LeastElement ==
  ASSUME NEW T, T \subseteq Nat, T # {}
  PROVE  \E x \in T : \A y \in T : x <= y
<1> DEFINE R == {ss \in Nat \X Nat : ss[1] < ss[2]}
<1>1. IsWellFoundedOn(R, Nat)
  BY NatLessThanWellFounded, Zenon DEF OpToRel
<1>2. PICK x \in T : \A y \in T : ~(<<y, x>> \in R)
  BY <1>1, WFMin
<1>3. ASSUME NEW y \in T PROVE x <= y
  <2>1. x \in Nat /\ y \in Nat
    OBVIOUS
  <2>2. y < x => <<y, x>> \in R
    BY <2>1
  <2> QED BY <1>2, <2>1, <2>2
<1> QED BY <1>3

LEMMA ParentFacts ==
  /\ \A i \in Nat \ {0} : Parent(i) \in Nat /\ Parent(i) < i
  /\ \A i \in Nat \ {0}, k \in Nat : Parent(i) = k <=> i = 2 * k + 1 \/ i = 2 * k + 2
BY DEF Parent

(* The two elements at i and j change places, counted from 0. *)
TwoExchanged(q, i, j) == [q EXCEPT ![i + 1] = q[j + 1], ![j + 1] = q[i + 1]]

LEMMA Exchange ==
  ASSUME NEW S, NEW q \in Seq(S), NEW i \in 0 .. (Len(q) - 1), NEW j \in 0 .. (Len(q) - 1),
         NEW r, r = TwoExchanged(q, i, j)
  PROVE  /\ r \in Seq(S) /\ Len(r) = Len(q)
         /\ \A k \in 0 .. (Len(q) - 1) :
              r[k + 1] = (IF k = j THEN q[i + 1] ELSE IF k = i THEN q[j + 1] ELSE q[k + 1])
<1>1. i + 1 \in 1 .. Len(q) /\ j + 1 \in 1 .. Len(q)
  OBVIOUS
<1>2. q[i + 1] \in S /\ q[j + 1] \in S
  BY <1>1
<1>3. r \in Seq(S) /\ Len(r) = Len(q)
  BY <1>1, <1>2 DEF TwoExchanged
<1>4. ASSUME NEW k \in 0 .. (Len(q) - 1)
      PROVE  r[k + 1] = (IF k = j THEN q[i + 1] ELSE IF k = i THEN q[j + 1] ELSE q[k + 1])
  BY <1>1 DEF TwoExchanged
<1> QED BY <1>3, <1>4

LEMMA AppendFacts ==
  ASSUME NEW S, NEW q \in Seq(S), NEW x \in S
  PROVE  /\ Append(q, x) \in Seq(S) /\ Len(Append(q, x)) = Len(q) + 1
         /\ \A i \in 0 .. (Len(q) - 1) : Append(q, x)[i + 1] = q[i + 1]
         /\ Append(q, x)[Len(q) + 1] = x
OBVIOUS

(* The last element takes the place of the first. *)
LEMMA LastToFront ==
  ASSUME NEW S, NEW q \in Seq(S), Len(q) > 0,
         NEW r, r = SubSeq([q EXCEPT ![1] = q[(Len(q) - 1) + 1]], 1, Len(q) - 1)
  PROVE  /\ r \in Seq(S) /\ Len(r) = Len(q) - 1
         /\ Len(r) > 0 => r[1] = q[Len(q)]
         /\ \A k \in 1 .. (Len(r) - 1) : r[k + 1] = q[k + 1]
<1> DEFINE f == [q EXCEPT ![1] = q[(Len(q) - 1) + 1]]
<1>1. Len(q) \in Nat \ {0} /\ (Len(q) - 1) + 1 = Len(q) /\ q[Len(q)] \in S
  OBVIOUS
<1>2. f \in Seq(S) /\ Len(f) = Len(q) /\ f[1] = q[Len(q)]
      /\ \A k \in 2 .. Len(q) : f[k] = q[k]
  BY <1>1
<1> HIDE DEF f
<1>3. r = SubSeq(f, 1, Len(q) - 1)
  BY DEF f
<1>4. r \in Seq(S) /\ Len(r) = Len(q) - 1 /\ \A k \in 1 .. (Len(q) - 1) : r[k] = f[k]
  BY <1>1, <1>2, <1>3
<1> QED BY <1>1, <1>2, <1>4

-----------------------------------------------------------------------------
(* Types, and where the sifting is *)

HeapType ==
  /\ heap_buffer \in Seq(Node)
  /\ priority \in [Node -> Priority] /\ current_idx \in [Node -> Nat]
  /\ up \in Int /\ up >= -1 /\ up < HeapSize
  /\ down \in Int /\ down >= -1 /\ (down > 0 => down < HeapSize)
  /\ rebuilding \in Int /\ rebuilding >= -1 /\ (rebuilding > 0 => rebuilding < HeapSize)
  /\ up >= 0 => down = -1 /\ rebuilding = -1
  /\ down >= 0 => down > rebuilding

HeapInv == HeapType /\ NodesKnowPlace

LEMMA BufferFacts ==
  ASSUME HeapType
  PROVE  /\ HeapSize \in Nat /\ \A i \in 0 .. (HeapSize - 1) : At(i) \in Node
         /\ \A n \in Present : n \in Node /\ \E i \in 0 .. (HeapSize - 1) : At(i) = n
         /\ \A i \in 0 .. (HeapSize - 1) : At(i) \in Present
<1>1. heap_buffer \in Seq(Node)
  BY DEF HeapType
<1>2. HeapSize \in Nat
  BY <1>1 DEF HeapSize
<1>3. ASSUME NEW i \in 0 .. (HeapSize - 1)
      PROVE  At(i) \in Node /\ At(i) \in Present
  <2>1. i + 1 \in 1 .. HeapSize
    BY <1>2
  <2> QED BY <1>1, <2>1 DEF At, Present, HeapSize
<1>4. ASSUME NEW n \in Present
      PROVE  n \in Node /\ \E i \in 0 .. (HeapSize - 1) : At(i) = n
  <2>1. PICK k \in 1 .. HeapSize : n = heap_buffer[k]
    BY DEF Present
  <2>2. k - 1 \in 0 .. (HeapSize - 1) /\ At(k - 1) = n /\ n \in Node
    BY <1>1, <1>2, <2>1 DEF At, HeapSize
  <2> QED BY <2>2
<1> QED BY <1>2, <1>3, <1>4

(* Two nodes change places. *)
LEMMA SwapPlaces ==
  ASSUME HeapInv, NEW i \in 0 .. (HeapSize - 1), NEW j \in 0 .. (HeapSize - 1), i # j, Swap(i, j)
  PROVE  /\ heap_buffer' \in Seq(Node) /\ HeapSize' = HeapSize
         /\ current_idx' \in [Node -> Nat]
         /\ heap_buffer'[i + 1] = At(j) /\ heap_buffer'[j + 1] = At(i)
         /\ \A k \in 0 .. (HeapSize - 1) : k # i /\ k # j => heap_buffer'[k + 1] = At(k)
         /\ NodesKnowPlace'
<1>t. HeapType /\ NodesKnowPlace /\ heap_buffer \in Seq(Node) /\ current_idx \in [Node -> Nat]
  BY DEF HeapInv, HeapType
<1>1. /\ heap_buffer' \in Seq(Node) /\ HeapSize' = HeapSize
      /\ \A k \in 0 .. (HeapSize - 1) :
           heap_buffer'[k + 1] = (IF k = j THEN At(i) ELSE IF k = i THEN At(j) ELSE At(k))
  <2>1. /\ heap_buffer' = TwoExchanged(heap_buffer, i, j)
        /\ i \in 0 .. (Len(heap_buffer) - 1) /\ j \in 0 .. (Len(heap_buffer) - 1)
    BY DEF Swap, At, HeapSize, TwoExchanged
  <2>q. heap_buffer \in Seq(Node)
    BY <1>t
  <2> HIDE DEF TwoExchanged
  <2>2. /\ heap_buffer' \in Seq(Node) /\ Len(heap_buffer') = Len(heap_buffer)
        /\ \A k \in 0 .. (Len(heap_buffer) - 1) :
             heap_buffer'[k + 1] =
               (IF k = j THEN heap_buffer[i + 1] ELSE IF k = i THEN heap_buffer[j + 1] ELSE heap_buffer[k + 1])
    BY <2>q, <2>1, Exchange
  <2> QED BY <2>2 DEF At, HeapSize
<1>2. /\ At(i) \in Node /\ At(j) \in Node
      /\ \A k \in 0 .. (HeapSize - 1) : At(k) \in Node /\ current_idx[At(k)] = k
  BY <1>t, BufferFacts DEF NodesKnowPlace
<1>3. At(i) # At(j)
  BY <1>2
<1>4. current_idx' \in [Node -> Nat] /\ current_idx'[At(j)] = i /\ current_idx'[At(i)] = j
      /\ \A n \in Node : n # At(i) /\ n # At(j) => current_idx'[n] = current_idx[n]
  <2>1. current_idx' = [current_idx EXCEPT ![At(j)] = i, ![At(i)] = j]
    BY DEF Swap, Indexed
  <2>2. i \in Nat /\ j \in Nat
    OBVIOUS
  <2> QED BY <1>t, <1>2, <1>3, <2>1, <2>2
<1>5. ASSUME NEW k \in 0 .. (HeapSize - 1)
      PROVE  current_idx'[heap_buffer'[k + 1]] = k
  <2>1. CASE k = i
    BY <1>1, <1>4, <2>1
  <2>2. CASE k = j
    BY <1>1, <1>4, <2>2
  <2>3. CASE k # i /\ k # j
    <3>1. At(k) # At(i) /\ At(k) # At(j) /\ heap_buffer'[k + 1] = At(k)
      BY <1>1, <1>2, <2>3
    <3> QED BY <1>2, <1>4, <3>1
  <2> QED BY <2>1, <2>2, <2>3
<1>6. NodesKnowPlace'
  BY <1>1, <1>5 DEF NodesKnowPlace, At
<1> QED BY <1>1, <1>4, <1>6

LEMMA InitHeapInv == InitHeap => HeapInv
<1> SUFFICES ASSUME InitHeap PROVE HeapInv
  OBVIOUS
<1>1. heap_buffer = << >> /\ HeapSize = 0 /\ up = -1 /\ down = -1 /\ rebuilding = -1
  BY DEF InitHeap, HeapSize
<1>2. 0 \in Priority
  BY HeapAssumption DEF Priority
<1>3. HeapType
  BY <1>1, <1>2 DEF InitHeap, HeapType
<1> QED BY <1>1, <1>3 DEF HeapInv, NodesKnowPlace

LEMMA PushHeapInv ==
  ASSUME HeapInv, NEW n \in Node, NEW p \in Priority, PushNode(n, p)
  PROVE  /\ HeapInv'
         /\ HeapSize' = HeapSize + 1 /\ heap_buffer'[HeapSize + 1] = n
         /\ \A i \in 0 .. (HeapSize - 1) : heap_buffer'[i + 1] = At(i) /\ At(i) # n
<1>t. HeapType /\ NodesKnowPlace /\ heap_buffer \in Seq(Node) /\ HeapSize \in Nat
  BY BufferFacts DEF HeapInv, HeapType
<1>1. /\ heap_buffer' \in Seq(Node) /\ HeapSize' = HeapSize + 1 /\ heap_buffer'[HeapSize + 1] = n
      /\ \A i \in 0 .. (HeapSize - 1) : heap_buffer'[i + 1] = At(i)
  BY <1>t, AppendFacts DEF PushNode, HeapSize, At
<1>2. \A i \in 0 .. (HeapSize - 1) : At(i) # n /\ At(i) \in Node /\ current_idx[At(i)] = i
  BY <1>t, BufferFacts DEF PushNode, NodesKnowPlace
<1>3. HeapType'
  BY <1>t, <1>1 DEF PushNode, HeapType, Idle
<1>4. current_idx' = [current_idx EXCEPT ![n] = HeapSize] /\ current_idx \in [Node -> Nat]
  BY <1>t DEF PushNode, HeapType
<1>5. \A i \in 0 .. HeapSize : current_idx'[heap_buffer'[i + 1]] = i
  <2> SUFFICES ASSUME NEW i \in 0 .. HeapSize PROVE current_idx'[heap_buffer'[i + 1]] = i
    OBVIOUS
  <2>1. CASE i = HeapSize
    BY <1>1, <1>4, <2>1
  <2>2. CASE i \in 0 .. (HeapSize - 1)
    BY <1>1, <1>2, <1>4, <2>2
  <2> QED BY <1>t, <2>1, <2>2
<1>6. NodesKnowPlace'
  BY <1>t, <1>1, <1>5 DEF NodesKnowPlace, At
<1> QED BY <1>1, <1>2, <1>3, <1>6 DEF HeapInv

LEMMA UpdateHeapInv ==
  ASSUME HeapInv, NEW n \in Node, NEW p \in Priority, UpdatePriority(n, p)
  PROVE  HeapInv' /\ current_idx[n] \in 0 .. (HeapSize - 1) /\ At(current_idx[n]) = n
<1>t. HeapType /\ NodesKnowPlace /\ HeapSize \in Nat
  BY BufferFacts DEF HeapInv
<1>1. PICK i \in 0 .. (HeapSize - 1) : At(i) = n
  BY <1>t, BufferFacts DEF UpdatePriority
<1>2. current_idx[n] = i
  BY <1>t, <1>1 DEF NodesKnowPlace
<1>3. HeapType'
  BY <1>t, <1>1, <1>2 DEF UpdatePriority, HeapType, HeapSize, Idle
<1>4. NodesKnowPlace'
  BY <1>t DEF UpdatePriority, NodesKnowPlace, HeapSize, At
<1> QED BY <1>1, <1>2, <1>3, <1>4 DEF HeapInv

LEMMA RemoveHeapInv ==
  ASSUME HeapInv, RemoveFront
  PROVE  /\ HeapInv' /\ HeapSize \in Nat /\ HeapSize' = HeapSize - 1
         /\ \A k \in 1 .. (HeapSize - 2) : heap_buffer'[k + 1] = At(k)
<1>t. HeapType /\ NodesKnowPlace /\ heap_buffer \in Seq(Node) /\ HeapSize \in Nat /\ HeapSize > 0
  BY BufferFacts DEF HeapInv, HeapType, RemoveFront
<1>1. /\ heap_buffer' \in Seq(Node) /\ HeapSize' = HeapSize - 1
      /\ HeapSize' > 0 => heap_buffer'[0 + 1] = At(HeapSize - 1)
      /\ \A k \in 1 .. (HeapSize' - 1) : heap_buffer'[k + 1] = At(k)
  <2>1. /\ heap_buffer' = SubSeq([heap_buffer EXCEPT ![1] = heap_buffer[(Len(heap_buffer) - 1) + 1]],
                                1, Len(heap_buffer) - 1)
        /\ Len(heap_buffer) > 0 /\ Len(heap_buffer) = HeapSize
    BY <1>t DEF RemoveFront, HeapSize, At
  <2>2. /\ heap_buffer' \in Seq(Node) /\ Len(heap_buffer') = Len(heap_buffer) - 1
        /\ Len(heap_buffer') > 0 => heap_buffer'[1] = heap_buffer[Len(heap_buffer)]
        /\ \A k \in 1 .. (Len(heap_buffer') - 1) : heap_buffer'[k + 1] = heap_buffer[k + 1]
    BY <1>t, <2>1, LastToFront
  <2> QED BY <1>t, <2>2 DEF HeapSize, At
<1>2. \A i \in 0 .. (HeapSize - 1) : At(i) \in Node /\ current_idx[At(i)] = i
  BY <1>t, BufferFacts DEF NodesKnowPlace
<1>3. current_idx' = [current_idx EXCEPT ![At(0)] = HeapSize - 1, ![At(HeapSize - 1)] = 0]
      /\ current_idx \in [Node -> Nat] /\ At(0) \in Node /\ At(HeapSize - 1) \in Node
  BY <1>t, <1>2 DEF RemoveFront, HeapType
<1>4. HeapType'
  <2>1. current_idx' \in [Node -> Nat]
    BY <1>t, <1>3, SMTT(30)
  <2> QED BY <1>t, <1>1, <2>1 DEF RemoveFront, HeapType, Idle
<1>5. \A k \in 0 .. (HeapSize' - 1) : current_idx'[heap_buffer'[k + 1]] = k
  <2> SUFFICES ASSUME NEW k \in 0 .. (HeapSize' - 1)
               PROVE  current_idx'[heap_buffer'[k + 1]] = k
    OBVIOUS
  <2>1. CASE k = 0
    BY <1>t, <1>1, <1>3, <2>1
  <2>2. CASE k \in 1 .. (HeapSize' - 1)
    <3>1. k \in 0 .. (HeapSize - 1) /\ k # 0 /\ k # HeapSize - 1 /\ heap_buffer'[k + 1] = At(k)
      BY <1>t, <1>1, <2>2
    <3>2. At(k) # At(0) /\ At(k) # At(HeapSize - 1)
      BY <1>t, <1>2, <3>1
    <3> QED BY <1>2, <1>3, <3>1, <3>2
  <2> QED BY <1>t, <1>1, <2>1, <2>2
<1>6. NodesKnowPlace'
  BY <1>5 DEF NodesKnowPlace, At
<1>7. \A k \in 1 .. (HeapSize - 2) : heap_buffer'[k + 1] = At(k)
  BY <1>t, <1>1
<1> QED BY <1>t, <1>1, <1>4, <1>6, <1>7 DEF HeapInv

(* The loop of rebuild, and its start. *)
LEMMA RebuildHeapInv ==
  ASSUME HeapInv, RebuildStep \/ \E p \in [Node -> Priority] : Rebuild(p)
  PROVE  HeapInv' /\ heap_buffer' = heap_buffer
<1>t. HeapType /\ NodesKnowPlace /\ HeapSize \in Nat
  BY BufferFacts DEF HeapInv
<1>1. CASE RebuildStep
  <2>1. HeapType'
    BY <1>t, <1>1 DEF RebuildStep, HeapType, HeapSize
  <2>2. NodesKnowPlace'
    BY <1>t, <1>1 DEF RebuildStep, NodesKnowPlace, HeapSize, At
  <2> QED BY <1>1, <2>1, <2>2 DEF HeapInv, RebuildStep
<1>2. ASSUME NEW p \in [Node -> Priority], Rebuild(p)
      PROVE  HeapInv' /\ heap_buffer' = heap_buffer
  <2>1. HeapSize \div 2 \in Nat /\ (HeapSize \div 2 > 0 => HeapSize \div 2 < HeapSize)
    BY <1>t
  <2>2. priority' \in [Node -> Priority]
    BY <1>t, <1>2 DEF Rebuild, HeapType
  <2>3. HeapType'
    BY <1>t, <1>2, <2>1, <2>2 DEF Rebuild, HeapType, HeapSize, Idle
  <2>4. NodesKnowPlace'
    BY <1>t, <1>2 DEF Rebuild, NodesKnowPlace, HeapSize, At
  <2> QED BY <1>2, <2>3, <2>4 DEF HeapInv, Rebuild
<1> QED BY <1>1, <1>2

LEMMA UpHeapInv ==
  ASSUME HeapInv, HeapifyUp
  PROVE  /\ HeapInv'
         /\ up > 0 => Parent(up) \in 0 .. (HeapSize - 1) /\ Parent(up) # up
<1>t. HeapType /\ NodesKnowPlace /\ HeapSize \in Nat /\ up \in Nat /\ up < HeapSize
  BY BufferFacts DEF HeapInv, HeapType, HeapifyUp
<1>1. up > 0 => Parent(up) \in 0 .. (HeapSize - 1) /\ Parent(up) # up
  BY <1>t, ParentFacts
<1>2. CASE up > 0 /\ priority[At(Parent(up))] > priority[At(up)]
  <2>1. Swap(Parent(up), up) /\ up' = Parent(up) /\ UNCHANGED <<priority, down, rebuilding>>
    BY <1>2 DEF HeapifyUp
  <2>2. heap_buffer' \in Seq(Node) /\ HeapSize' = HeapSize /\ current_idx' \in [Node -> Nat]
        /\ NodesKnowPlace'
    BY <1>t, <1>1, <1>2, <2>1, SwapPlaces
  <2>3. HeapType'
    BY <1>t, <1>1, <1>2, <2>1, <2>2 DEF HeapType
  <2> QED BY <1>1, <2>2, <2>3 DEF HeapInv
<1>3. CASE ~(up > 0 /\ priority[At(Parent(up))] > priority[At(up)])
  <2>1. HeapType'
    BY <1>t, <1>3 DEF HeapifyUp, HeapType, HeapSize
  <2>2. NodesKnowPlace'
    BY <1>t, <1>3 DEF HeapifyUp, NodesKnowPlace, HeapSize, At
  <2> QED BY <1>1, <2>1, <2>2 DEF HeapInv
<1> QED BY <1>2, <1>3

(* The child that heapify_down picks. *)
LEMMA SmallestFacts ==
  ASSUME HeapInv, down >= 0, \E j \in Below(down) : priority[At(j)] < priority[At(down)]
  PROVE  /\ Smallest(down) \in Below(down) /\ Smallest(down) \in 1 .. (HeapSize - 1)
         /\ down \in 0 .. (HeapSize - 1) /\ Parent(Smallest(down)) = down /\ Smallest(down) # down
         /\ \A k \in Below(down) : priority[At(Smallest(down))] <= priority[At(k)]
         /\ priority[At(Smallest(down))] < priority[At(down)]
<1>t. HeapType /\ HeapSize \in Nat /\ down \in Nat
  BY BufferFacts DEF HeapInv, HeapType
<1>1. \A k \in Below(down) : k \in 1 .. (HeapSize - 1) /\ k \in Nat \ {0} /\ k > down
  BY <1>t DEF Below
<1>2. down \in 0 .. (HeapSize - 1)
  BY <1>t, <1>1
<1>3. \A k \in Below(down) : priority[At(k)] \in Int
  BY <1>t, <1>1, BufferFacts, HeapAssumption DEF HeapType, Priority
<1>4. \E j \in Below(down) : \A k \in Below(down) :
         \/ priority[At(j)] < priority[At(k)]
         \/ priority[At(j)] = priority[At(k)] /\ j <= k
  BY <1>t, <1>1, <1>3 DEF Below
<1>5. /\ Smallest(down) \in Below(down)
      /\ \A k \in Below(down) :
           \/ priority[At(Smallest(down))] < priority[At(k)]
           \/ priority[At(Smallest(down))] = priority[At(k)] /\ Smallest(down) <= k
  BY <1>4 DEF Smallest
<1>6. \A k \in Below(down) : priority[At(Smallest(down))] <= priority[At(k)]
  BY <1>3, <1>5
<1>7. priority[At(down)] \in Int
  BY <1>t, <1>2, BufferFacts, HeapAssumption DEF HeapType, Priority
<1>8. priority[At(Smallest(down))] < priority[At(down)]
  BY <1>3, <1>5, <1>6, <1>7
<1>9. Parent(Smallest(down)) = down
  BY <1>t, <1>1, <1>5, ParentFacts DEF Below
<1> QED BY <1>t, <1>1, <1>2, <1>5, <1>6, <1>8, <1>9

LEMMA DownHeapInv ==
  ASSUME HeapInv, HeapifyDown
  PROVE  HeapInv'
<1>t. HeapType /\ NodesKnowPlace /\ HeapSize \in Nat /\ down >= 0
  BY BufferFacts DEF HeapInv, HeapifyDown
<1>1. CASE \E j \in Below(down) : priority[At(j)] < priority[At(down)]
  <2>1. /\ Swap(down, Smallest(down)) /\ down' = Smallest(down)
        /\ UNCHANGED <<priority, up, rebuilding>>
    BY <1>1 DEF HeapifyDown
  <2>2. /\ down \in 0 .. (HeapSize - 1) /\ Smallest(down) \in 1 .. (HeapSize - 1)
        /\ Smallest(down) # down /\ Smallest(down) > down
    BY <1>t, <1>1, SmallestFacts, ParentFacts
  <2>3. Smallest(down) \in 0 .. (HeapSize - 1)
    BY <2>2
  <2>4. heap_buffer' \in Seq(Node) /\ HeapSize' = HeapSize /\ current_idx' \in [Node -> Nat]
        /\ NodesKnowPlace'
    BY <2>1, <2>2, <2>3, SwapPlaces
  <2>5. HeapType'
    BY <1>t, <2>1, <2>2, <2>4 DEF HeapType
  <2> QED BY <2>4, <2>5 DEF HeapInv
<1>2. CASE ~\E j \in Below(down) : priority[At(j)] < priority[At(down)]
  <2>1. HeapType'
    BY <1>t, <1>2 DEF HeapifyDown, HeapType, HeapSize
  <2>2. NodesKnowPlace'
    BY <1>t, <1>2 DEF HeapifyDown, NodesKnowPlace, HeapSize, At
  <2> QED BY <2>1, <2>2 DEF HeapInv
<1> QED BY <1>1, <1>2

LEMMA NextHeapInv == HeapInv /\ [NextHeap]_heapVars => HeapInv'
<1>1. HeapInv /\ UNCHANGED heapVars => HeapInv'
  BY DEF heapVars, HeapInv, HeapType, NodesKnowPlace, HeapSize, At
<1> QED BY <1>1, PushHeapInv, UpdateHeapInv, RemoveHeapInv, RebuildHeapInv, UpHeapInv, DownHeapInv
           DEF NextHeap, Sift

(* A node's current_idx is the place of the node in the array at all times, also between two  *)
(* swaps: the expert that evict or hit looks up is the one the heap holds there.              *)
THEOREM PlacesKnown == SpecHeap => []NodesKnowPlace
<1>1. HeapInv => NodesKnowPlace
  BY DEF HeapInv
<1> QED BY InitHeapInv, NextHeapInv, <1>1, PTL DEF SpecHeap
-----------------------------------------------------------------------------
(* The order of the heap.  While a node is sifted up or down it alone may be out of order     *)
(* with its parent (its children), and its parent is in order with its children.  In a        *)
(* rebuild that holds of the nodes whose parent the loop has reached.                         *)

Weight(i) == priority[At(i)]
Inner == 1 .. (HeapSize - 1)

OrderInv ==
  /\ up >= 0 => \A i \in Inner :
       /\ i # up => Weight(Parent(i)) <= Weight(i)
       /\ up > 0 /\ Parent(i) = up => Weight(Parent(up)) <= Weight(i)
  /\ up < 0 => \A i \in Inner :
       /\ Parent(i) > rebuilding /\ Parent(i) # down => Weight(Parent(i)) <= Weight(i)
       /\ down > 0 /\ Parent(down) > rebuilding /\ Parent(i) = down =>
            Weight(Parent(down)) <= Weight(i)

LEMMA WeightFacts ==
  ASSUME HeapType
  PROVE  /\ HeapSize \in Nat /\ up \in Int /\ down \in Int /\ rebuilding \in Int
         /\ \A i \in 0 .. (HeapSize - 1) : Weight(i) \in Int
         /\ \A i \in Inner : i \in Nat \ {0} /\ i \in 0 .. (HeapSize - 1) /\ Parent(i) < i
                            /\ Parent(i) \in Nat /\ Parent(i) \in 0 .. (HeapSize - 1)
<1>1. HeapSize \in Nat /\ \A i \in 0 .. (HeapSize - 1) : At(i) \in Node
  BY BufferFacts
<1>2. \A i \in 0 .. (HeapSize - 1) : Weight(i) \in Int
  BY <1>1, HeapAssumption DEF Weight, HeapType, Priority
<1>3. ASSUME NEW i \in Inner
      PROVE  i \in Nat \ {0} /\ i \in 0 .. (HeapSize - 1) /\ Parent(i) < i
             /\ Parent(i) \in Nat /\ Parent(i) \in 0 .. (HeapSize - 1)
  <2>1. i \in Nat \ {0} /\ i \in 0 .. (HeapSize - 1)
    BY <1>1 DEF Inner
  <2>2. Parent(i) \in Nat /\ Parent(i) < i
    BY <2>1, ParentFacts
  <2> QED BY <1>1, <2>1, <2>2
<1> QED BY <1>1, <1>2, <1>3 DEF HeapType

(* With nothing to sift every node is in order. *)
LEMMA IdleOrdered ==
  ASSUME HeapInv, OrderInv, Idle
  PROVE  \A i \in Inner : Weight(Parent(i)) <= Weight(i)
<1>1. \A i \in Inner : Parent(i) \in Nat
  BY WeightFacts DEF HeapInv
<1> QED BY <1>1 DEF OrderInv, Idle

(* The new node is a leaf. *)
LEMMA PushOrder ==
  ASSUME HeapInv, OrderInv, NEW n \in Node, NEW p \in Priority, PushNode(n, p)
  PROVE  OrderInv'
<1>t. HeapInv /\ HeapType /\ HeapSize \in Nat /\ Idle
  BY WeightFacts DEF HeapInv, PushNode
<1>1. /\ HeapSize' = HeapSize + 1 /\ up' = HeapSize
      /\ \A i \in 0 .. (HeapSize - 1) : Weight(i)' = Weight(i)
  <2>1. /\ HeapSize' = HeapSize + 1
        /\ \A i \in 0 .. (HeapSize - 1) : heap_buffer'[i + 1] = At(i) /\ At(i) # n /\ At(i) \in Node
    BY <1>t, PushHeapInv, BufferFacts
  <2>2. priority' = [priority EXCEPT ![n] = p] /\ up' = HeapSize /\ priority \in [Node -> Priority]
    BY <1>t DEF PushNode, HeapType
  <2> QED BY <2>1, <2>2 DEF Weight, At
<1>2. ASSUME NEW i \in Inner'
      PROVE  /\ i # HeapSize => Weight(Parent(i))' <= Weight(i)'
             /\ Parent(i) # HeapSize
  <2>1. i \in 1 .. HeapSize /\ i \in Nat \ {0}
    BY <1>t, <1>1 DEF Inner
  <2>2. Parent(i) \in Nat /\ Parent(i) < i
    BY <2>1, ParentFacts
  <2>3. CASE i # HeapSize
    <3>1. i \in Inner /\ i \in 0 .. (HeapSize - 1) /\ Parent(i) \in 0 .. (HeapSize - 1)
      BY <1>t, <2>1, <2>2, <2>3 DEF Inner
    <3>2. Weight(Parent(i)) <= Weight(i)
      BY <1>t, <3>1, IdleOrdered
    <3> QED BY <1>t, <1>1, <2>1, <2>2, <3>1, <3>2
  <2> QED BY <1>t, <2>1, <2>2, <2>3
<1> QED BY <1>t, <1>1, <1>2 DEF OrderInv

(* The node keeps its place and is sifted the way its priority has gone. *)
LEMMA UpdateOrder ==
  ASSUME HeapInv, OrderInv, NEW n \in Node, NEW p \in Priority, UpdatePriority(n, p)
  PROVE  OrderInv'
<1>c. PICK c : c = current_idx[n]
  OBVIOUS
<1>t. HeapType /\ NodesKnowPlace /\ HeapSize \in Nat /\ Idle /\ c \in 0 .. (HeapSize - 1) /\ At(c) = n
  BY <1>c, UpdateHeapInv, WeightFacts DEF HeapInv, UpdatePriority
<1>1. Inner' = Inner /\ HeapSize' = HeapSize /\ heap_buffer' = heap_buffer /\ rebuilding' = rebuilding
      /\ rebuilding = -1 /\ up = -1 /\ down = -1
  BY <1>t DEF UpdatePriority, Inner, HeapSize, Idle
<1>2. /\ Weight(c)' = p /\ Weight(c) = priority[n] /\ p \in Int /\ priority[n] \in Int
      /\ \A i \in 0 .. (HeapSize - 1) : Weight(i) \in Int /\ (i # c => Weight(i)' = Weight(i))
  <2>1. \A i \in 0 .. (HeapSize - 1) : At(i) \in Node /\ (i # c => At(i) # n)
    BY <1>t, BufferFacts DEF NodesKnowPlace
  <2>2. priority' = [priority EXCEPT ![n] = p] /\ priority \in [Node -> Priority]
    BY <1>t DEF UpdatePriority, HeapType
  <2>3. \A q \in Priority : q \in Int
    BY HeapAssumption DEF Priority
  <2> QED BY <1>t, <1>1, <2>1, <2>2, <2>3, WeightFacts DEF Weight, At
<1>3. \A i \in Inner : /\ Weight(Parent(i)) <= Weight(i)
                       /\ i \in 0 .. (HeapSize - 1) /\ Parent(i) \in 0 .. (HeapSize - 1)
                       /\ Parent(i) # i /\ Parent(i) > -1
  BY <1>t, IdleOrdered, WeightFacts
<1>4. c > 0 => c \in Inner /\ Parent(c) # c /\ Parent(c) \in 0 .. (HeapSize - 1)
  <2>1. c > 0 => c \in Inner
    BY <1>t DEF Inner
  <2> QED BY <1>3, <2>1
<1>5. CASE p < priority[n]
  <2>1. up' = c /\ up' >= 0
    BY <1>t, <1>c, <1>5 DEF UpdatePriority
  <2>2. \A i \in Inner : i # c => Weight(Parent(i))' <= Weight(i)'
    BY <1>2, <1>3, <1>5
  <2>3. \A i \in Inner : c > 0 /\ Parent(i) = c => Weight(Parent(c))' <= Weight(i)'
    <3> SUFFICES ASSUME NEW i \in Inner, c > 0, Parent(i) = c
                 PROVE  Weight(Parent(c))' <= Weight(i)'
      OBVIOUS
    <3>1. Weight(Parent(c)) <= Weight(c) /\ Weight(c) <= Weight(i) /\ i # c
      BY <1>3, <1>4
    <3>2. Weight(Parent(c))' = Weight(Parent(c)) /\ Weight(i)' = Weight(i)
      BY <1>2, <1>3, <1>4, <3>1
    <3>3. Weight(Parent(c)) \in Int /\ Weight(c) \in Int /\ Weight(i) \in Int
      BY <1>t, <1>2, <1>3, <1>4
    <3> QED BY <3>1, <3>2, <3>3
  <2> QED BY <1>1, <1>t, <2>1, <2>2, <2>3 DEF OrderInv
<1>6. CASE ~(p < priority[n])
  <2>1. up' = -1 /\ down' = c
    BY <1>1, <1>c, <1>6 DEF UpdatePriority
  <2>2. \A i \in Inner : Parent(i) # c => Weight(Parent(i))' <= Weight(i)'
    BY <1>2, <1>3, <1>6
  <2>3. \A i \in Inner : c > 0 /\ Parent(i) = c => Weight(Parent(c))' <= Weight(i)'
    <3> SUFFICES ASSUME NEW i \in Inner, c > 0, Parent(i) = c
                 PROVE  Weight(Parent(c))' <= Weight(i)'
      OBVIOUS
    <3>1. Weight(Parent(c)) <= Weight(c) /\ Weight(c) <= Weight(i) /\ i # c
      BY <1>3, <1>4
    <3>2. Weight(Parent(c))' = Weight(Parent(c)) /\ Weight(i)' = Weight(i)
      BY <1>2, <1>3, <1>4, <3>1
    <3>3. Weight(Parent(c)) \in Int /\ Weight(c) \in Int /\ Weight(i) \in Int
      BY <1>t, <1>2, <1>3, <1>4
    <3> QED BY <3>1, <3>2, <3>3
  <2> QED BY <1>1, <1>t, <2>1, <2>2, <2>3 DEF OrderInv
<1> QED BY <1>5, <1>6

(* Only the front is out of order with its children. *)
LEMMA RemoveOrder ==
  ASSUME HeapInv, OrderInv, RemoveFront
  PROVE  OrderInv'
<1>t. HeapType /\ HeapSize \in Nat /\ Idle /\ HeapSize > 0
  BY WeightFacts DEF HeapInv, RemoveFront
<1>1. /\ HeapSize' = HeapSize - 1 /\ up' = -1 /\ rebuilding' = -1
      /\ down' = (IF HeapSize > 1 THEN 0 ELSE -1)
      /\ \A k \in 1 .. (HeapSize - 2) : Weight(k)' = Weight(k)
  <2>1. HeapSize' = HeapSize - 1 /\ \A k \in 1 .. (HeapSize - 2) : heap_buffer'[k + 1] = At(k)
    BY RemoveHeapInv
  <2>2. priority' = priority /\ up' = -1 /\ rebuilding' = -1
        /\ down' = (IF HeapSize > 1 THEN 0 ELSE -1)
    BY <1>t DEF RemoveFront, Idle
  <2> QED BY <2>1, <2>2 DEF Weight, At
<1>2. ASSUME NEW i \in Inner', Parent(i) # down'
      PROVE  Weight(Parent(i))' <= Weight(i)'
  <2>1. i \in 1 .. (HeapSize - 2) /\ i \in Inner /\ HeapSize > 1
    BY <1>t, <1>1 DEF Inner
  <2>2. Parent(i) \in 1 .. (HeapSize - 2)
    BY <1>t, <1>1, <1>2, <2>1, WeightFacts
  <2>3. Weight(Parent(i)) <= Weight(i)
    BY <1>t, <2>1, IdleOrdered
  <2> QED BY <1>1, <2>1, <2>2, <2>3
<1>3. ~(down' > 0)
  BY <1>1
<1> QED BY <1>1, <1>2, <1>3 DEF OrderInv

(* A node behind the middle has no child; the loop of rebuild goes on to its next node. *)
LEMMA RebuildOrder ==
  ASSUME HeapInv, OrderInv, RebuildStep \/ \E p \in [Node -> Priority] : Rebuild(p)
  PROVE  OrderInv'
<1>t. HeapType /\ HeapSize \in Nat /\ HeapType'
  BY WeightFacts, RebuildHeapInv DEF HeapInv
<1>1. Inner' = Inner /\ HeapSize' = HeapSize /\ heap_buffer' = heap_buffer
  BY RebuildHeapInv DEF Inner, HeapSize
<1>2. CASE RebuildStep
  <2>1. /\ down = -1 /\ up' = up /\ up = -1 /\ down' = rebuilding /\ rebuilding' = rebuilding - 1
        /\ rebuilding \in Nat
        /\ \A i : Weight(i)' = Weight(i)
    BY <1>t, <1>1, <1>2 DEF RebuildStep, HeapType, Weight, At
  <2>2. ASSUME NEW i \in Inner, Parent(i) > rebuilding', Parent(i) # down'
        PROVE  Weight(Parent(i))' <= Weight(i)'
    <3>1. Parent(i) > rebuilding /\ Parent(i) # down
      BY <1>t, <2>1, <2>2, WeightFacts
    <3> QED BY <2>1, <3>1 DEF OrderInv
  <2>3. down' > 0 => ~(Parent(down') > rebuilding')
    BY <2>1, ParentFacts
  <2> QED BY <1>1, <2>1, <2>2, <2>3 DEF OrderInv
<1>3. ASSUME NEW p \in [Node -> Priority], Rebuild(p)
      PROVE  OrderInv'
  <2>1. up' = -1 /\ down' = -1 /\ rebuilding' = HeapSize \div 2
    BY <1>t, <1>3 DEF Rebuild, Idle
  <2>2. \A i \in Inner : ~(Parent(i) > HeapSize \div 2)
    <3> SUFFICES ASSUME NEW i \in Inner, Parent(i) > HeapSize \div 2 PROVE FALSE
      OBVIOUS
    <3>1. i < HeapSize /\ Parent(i) \in Nat /\ i \in Nat \ {0}
      BY <1>t, WeightFacts DEF Inner
    <3>2. i = 2 * Parent(i) + 1 \/ i = 2 * Parent(i) + 2
      BY <3>1, ParentFacts
    <3> QED BY <1>t, <3>1, <3>2
  <2> QED BY <1>1, <2>1, <2>2 DEF OrderInv
<1> QED BY <1>2, <1>3

(* A node goes up: its parent is greater than it and not greater than its children. *)
LEMMA UpOrder ==
  ASSUME HeapInv, OrderInv, HeapifyUp
  PROVE  OrderInv'
<1>u. PICK u, q : u = up /\ q = Parent(u)
  OBVIOUS
<1>t. /\ HeapInv /\ HeapType /\ HeapSize \in Nat
      /\ u \in Nat /\ u \in 0 .. (HeapSize - 1) /\ down = -1 /\ rebuilding = -1
      /\ \A i \in 0 .. (HeapSize - 1) : Weight(i) \in Int
  BY <1>u, WeightFacts DEF HeapInv, HeapifyUp, HeapType
<1>0. /\ u > 0 => q \in 0 .. (HeapSize - 1) /\ q # u /\ u \in Inner /\ q \in Nat
      /\ \A i \in Inner : /\ i \in 0 .. (HeapSize - 1) /\ Parent(i) \in 0 .. (HeapSize - 1)
                          /\ Parent(i) # i /\ Parent(i) > -1
      /\ u > 0 /\ q > 0 => /\ q \in Inner /\ Parent(q) \in 0 .. (HeapSize - 1)
                           /\ Parent(q) # q /\ Parent(q) # u
  <2>1. u > 0 => u \in Inner
    BY <1>t DEF Inner
  <2>2. u > 0 => q \in 0 .. (HeapSize - 1) /\ q < u /\ q \in Nat
    BY <1>u, <1>t, <2>1, WeightFacts
  <2>4. u > 0 /\ q > 0 => q \in Inner /\ q < u
    BY <1>t, <2>2 DEF Inner
  <2>5. u > 0 /\ q > 0 => Parent(q) \in 0 .. (HeapSize - 1) /\ Parent(q) < q
    BY <1>t, <2>4, WeightFacts
  <2>6. \A i \in Inner : /\ i \in 0 .. (HeapSize - 1) /\ Parent(i) \in 0 .. (HeapSize - 1)
                         /\ Parent(i) # i /\ Parent(i) > -1
    BY <1>t, WeightFacts
  <2> QED BY <1>t, <2>1, <2>2, <2>4, <2>5, <2>6
<1>1. \A i \in Inner : /\ i # u => Weight(Parent(i)) <= Weight(i)
                       /\ u > 0 /\ Parent(i) = u => Weight(q) <= Weight(i)
  BY <1>u, <1>t DEF OrderInv
<1>2. CASE u > 0 /\ Weight(q) > Weight(u)
  <2>1. Swap(q, u) /\ up' = q /\ UNCHANGED <<priority, down, rebuilding>>
    BY <1>2, <1>u DEF HeapifyUp, Weight
  <2>2. /\ HeapSize' = HeapSize /\ Inner' = Inner
        /\ Weight(q)' = Weight(u) /\ Weight(u)' = Weight(q)
        /\ \A k \in 0 .. (HeapSize - 1) : k # q /\ k # u => Weight(k)' = Weight(k)
    <3>1. /\ HeapSize' = HeapSize
          /\ heap_buffer'[q + 1] = At(u) /\ heap_buffer'[u + 1] = At(q)
          /\ \A k \in 0 .. (HeapSize - 1) : k # q /\ k # u => heap_buffer'[k + 1] = At(k)
      BY <1>t, <1>0, <1>2, <2>1, SwapPlaces, SMTT(30)
    <3> QED BY <2>1, <3>1 DEF Weight, At, Inner
  <2>3. ASSUME NEW i \in Inner, i # q
        PROVE  Weight(Parent(i))' <= Weight(i)'
    <3>1. CASE i = u
      BY <1>u, <1>0, <1>2, <1>t, <2>2, <3>1
    <3>2. CASE i # u /\ Parent(i) = q
      <4>1. Weight(q) <= Weight(i) /\ Weight(i)' = Weight(i)
        BY <1>0, <1>1, <2>2, <2>3, <3>2
      <4>2. Weight(q) \in Int /\ Weight(u) \in Int /\ Weight(i) \in Int
        BY <1>t, <1>0, <1>2
      <4> QED BY <1>2, <2>2, <3>2, <4>1, <4>2
    <3>3. CASE i # u /\ Parent(i) = u
      BY <1>0, <1>1, <1>2, <2>2, <2>3, <3>3
    <3>4. CASE i # u /\ Parent(i) # u /\ Parent(i) # q
      BY <1>0, <1>1, <2>2, <2>3, <3>4
    <3> QED BY <3>1, <3>2, <3>3, <3>4
  <2>4. ASSUME NEW i \in Inner, q > 0, Parent(i) = q
        PROVE  Weight(Parent(q))' <= Weight(i)'
    <3>1. Weight(Parent(q))' = Weight(Parent(q)) /\ Weight(Parent(q)) <= Weight(q)
      BY <1>0, <1>1, <1>2, <2>2, <2>4
    <3>2. CASE i = u
      BY <2>2, <3>1, <3>2
    <3>3. CASE i # u
      <4>1. Weight(i)' = Weight(i) /\ Weight(q) <= Weight(i)
        BY <1>0, <1>1, <2>2, <2>4, <3>3
      <4>2. Weight(q) \in Int /\ Weight(Parent(q)) \in Int /\ Weight(i) \in Int
        BY <1>t, <1>0, <1>2, <2>4
      <4> QED BY <3>1, <4>1, <4>2
    <3> QED BY <3>2, <3>3
  <2> QED BY <1>0, <1>2, <2>1, <2>2, <2>3, <2>4 DEF OrderInv
<1>3. CASE ~(u > 0 /\ Weight(q) > Weight(u))
  <2>1. up' = -1 /\ UNCHANGED <<heap_buffer, priority, down, rebuilding>>
    BY <1>3, <1>u DEF HeapifyUp, Weight
  <2>2. Inner' = Inner /\ \A i : Weight(i)' = Weight(i)
    BY <2>1 DEF Inner, HeapSize, Weight, At
  <2>3. \A i \in Inner : Weight(Parent(i)) <= Weight(i)
    <3> SUFFICES ASSUME NEW i \in Inner PROVE Weight(Parent(i)) <= Weight(i)
      OBVIOUS
    <3>1. CASE i = u
      <4>1. u > 0 /\ u \in 0 .. (HeapSize - 1) /\ q \in 0 .. (HeapSize - 1)
        BY <1>t, <1>0, <3>1 DEF Inner
      <4> QED BY <1>u, <1>t, <1>3, <3>1, <4>1
    <3> QED BY <1>1, <3>1
  <2> QED BY <1>t, <2>1, <2>2, <2>3 DEF OrderInv
<1> QED BY <1>2, <1>3

(* A node goes down: the child that takes its place is not greater than its other child. *)
LEMMA DownOrder ==
  ASSUME HeapInv, OrderInv, HeapifyDown
  PROVE  OrderInv'
<1>u. PICK d, s, r : d = down /\ s = Smallest(down) /\ r = rebuilding
  OBVIOUS
<1>t. /\ HeapInv /\ HeapType /\ HeapSize \in Nat /\ up = -1 /\ up' = up /\ rebuilding' = r
      /\ d \in Nat /\ r \in Int /\ r < d
      /\ \A i \in 0 .. (HeapSize - 1) : Weight(i) \in Int
  BY <1>u, WeightFacts DEF HeapInv, HeapifyDown, HeapType
<1>0. \A i \in Inner : /\ i \in 0 .. (HeapSize - 1) /\ Parent(i) \in 0 .. (HeapSize - 1)
                       /\ Parent(i) # i /\ Parent(i) < i /\ i \in Nat \ {0}
  BY <1>t, WeightFacts
<1>1. \A i \in Inner :
        /\ Parent(i) > r /\ Parent(i) # d => Weight(Parent(i)) <= Weight(i)
        /\ d > 0 /\ Parent(d) > r /\ Parent(i) = d => Weight(Parent(d)) <= Weight(i)
  BY <1>u, <1>t DEF OrderInv
<1>b. \A i \in Inner : Parent(i) = d => i \in Below(d)
  BY <1>t, <1>0, ParentFacts DEF Below, Inner
<1>2. CASE \E j \in Below(d) : Weight(j) < Weight(d)
  <2>1. Swap(d, s) /\ down' = s /\ UNCHANGED <<priority, up, rebuilding>>
    BY <1>2, <1>u DEF HeapifyDown, Weight
  <2>2. /\ s \in Inner /\ s \in 0 .. (HeapSize - 1) /\ d \in 0 .. (HeapSize - 1)
        /\ Parent(s) = d /\ s # d /\ Weight(s) < Weight(d)
        /\ \A k \in Below(d) : Weight(s) <= Weight(k)
    <3>1. /\ Smallest(down) \in 1 .. (HeapSize - 1)
          /\ down \in 0 .. (HeapSize - 1) /\ Parent(Smallest(down)) = down /\ Smallest(down) # down
          /\ \A k \in Below(down) : priority[At(Smallest(down))] <= priority[At(k)]
          /\ priority[At(Smallest(down))] < priority[At(down)]
      BY <1>2, <1>u, <1>t, SmallestFacts DEF Weight
    <3> QED BY <1>u, <1>t, <3>1 DEF Weight, Inner
  <2>3. /\ HeapSize' = HeapSize /\ Inner' = Inner
        /\ Weight(d)' = Weight(s) /\ Weight(s)' = Weight(d)
        /\ \A k \in 0 .. (HeapSize - 1) : k # d /\ k # s => Weight(k)' = Weight(k)
    <3>1. /\ HeapSize' = HeapSize
          /\ heap_buffer'[d + 1] = At(s) /\ heap_buffer'[s + 1] = At(d)
          /\ \A k \in 0 .. (HeapSize - 1) : k # d /\ k # s => heap_buffer'[k + 1] = At(k)
      BY <1>t, <2>1, <2>2, SwapPlaces
    <3> QED BY <2>1, <3>1 DEF Weight, At, Inner
  <2>4. ASSUME NEW i \in Inner, Parent(i) > r, Parent(i) # s
        PROVE  Weight(Parent(i))' <= Weight(i)'
    <3>1. CASE i = s
      BY <1>t, <2>2, <2>3, <3>1
    <3>2. CASE i # s /\ Parent(i) = d
      <4>1. i \in Below(d) /\ i # d
        BY <1>0, <1>b, <3>2
      <4> QED BY <1>0, <2>2, <2>3, <3>2, <4>1
    <3>3. CASE i = d /\ Parent(i) # d
      <4>1. d > 0 /\ Parent(d) > r /\ Parent(d) # d /\ Parent(d) \in 0 .. (HeapSize - 1)
        BY <1>0, <2>4, <3>3
      <4>2. Weight(Parent(d)) <= Weight(s)
        BY <1>1, <2>2, <4>1
      <4>3. Weight(Parent(d))' = Weight(Parent(d))
        BY <2>3, <2>4, <3>3, <4>1
      <4> QED BY <2>3, <3>3, <4>2, <4>3
    <3>4. CASE i # s /\ i # d /\ Parent(i) # d
      BY <1>0, <1>1, <2>3, <2>4, <3>4
    <3> QED BY <3>1, <3>2, <3>3, <3>4, <2>2
  <2>5. ASSUME NEW i \in Inner, s > 0, Parent(s) > r, Parent(i) = s
        PROVE  Weight(Parent(s))' <= Weight(i)'
    <3>1. i # s /\ i # d /\ i \in 0 .. (HeapSize - 1)
      BY <1>0, <2>2, <2>5
    <3>2. Weight(s) <= Weight(i)
      <4>1. Parent(i) > r /\ Parent(i) # d
        BY <1>t, <1>0, <2>2, <2>5
      <4> QED BY <1>1, <2>5, <4>1
    <3> QED BY <2>2, <2>3, <3>1, <3>2
  <2> QED BY <1>t, <2>1, <2>3, <2>4, <2>5 DEF OrderInv
<1>3. CASE ~\E j \in Below(d) : Weight(j) < Weight(d)
  <2>1. down' = -1 /\ UNCHANGED <<heap_buffer, priority, up, rebuilding>>
    BY <1>3, <1>u DEF HeapifyDown, Weight
  <2>2. Inner' = Inner /\ \A i : Weight(i)' = Weight(i)
    BY <2>1 DEF Inner, HeapSize, Weight, At
  <2>3. \A i \in Inner : Parent(i) > r => Weight(Parent(i)) <= Weight(i)
    <3> SUFFICES ASSUME NEW i \in Inner, Parent(i) > r PROVE Weight(Parent(i)) <= Weight(i)
      OBVIOUS
    <3>1. CASE Parent(i) = d
      <4>1. i \in Below(d) /\ Weight(i) \in Int /\ Weight(d) \in Int
        BY <1>t, <1>0, <1>b, <3>1
      <4> QED BY <1>3, <3>1, <4>1
    <3> QED BY <1>1, <3>1
  <2> QED BY <1>t, <2>1, <2>2, <2>3 DEF OrderInv
<1> QED BY <1>2, <1>3

LEMMA NextOrder == HeapInv /\ OrderInv /\ [NextHeap]_heapVars => OrderInv'
<1>1. HeapInv /\ OrderInv /\ UNCHANGED heapVars => OrderInv'
  BY DEF heapVars, OrderInv, Inner, Weight, HeapSize, At
<1> QED BY <1>1, PushOrder, UpdateOrder, RemoveOrder, RebuildOrder, UpOrder, DownOrder
           DEF NextHeap, Sift

LEMMA InitOrder == InitHeap => OrderInv
<1> SUFFICES ASSUME InitHeap PROVE OrderInv
  OBVIOUS
<1>1. Inner = {}
  BY DEF InitHeap, Inner, HeapSize
<1> QED BY <1>1 DEF OrderInv

(* A lighter node than the front would have a parent that is lighter as well; the first of    *)
(* them has none.                                                                             *)
LEMMA OrderGivesFront == HeapInv /\ OrderInv => FrontIsLeast
<1> SUFFICES ASSUME HeapInv, OrderInv, Idle, NEW n \in Present
             PROVE  priority[At(0)] <= priority[n]
  BY DEF FrontIsLeast
<1>t. HeapType /\ HeapSize \in Nat
  BY WeightFacts DEF HeapInv
<1>1. PICK i \in 0 .. (HeapSize - 1) : At(i) = n
  BY <1>t, BufferFacts
<1> DEFINE Lighter == {j \in 0 .. (HeapSize - 1) : Weight(j) < Weight(0)}
<1>2. Lighter = {}
  <2> SUFFICES ASSUME Lighter # {} PROVE FALSE
    OBVIOUS
  <2>1. Lighter \subseteq Nat
    BY <1>t
  <2>2. PICK j \in Lighter : \A k \in Lighter : j <= k
    BY <2>1, LeastElement
  <2>3. 0 \in 0 .. (HeapSize - 1) /\ Weight(0) \in Int
    BY <1>t, <1>1, WeightFacts
  <2>4. j \in 0 .. (HeapSize - 1) /\ Weight(j) < Weight(0) /\ j # 0
    BY <2>3
  <2>5. j \in Inner
    BY <1>t, <2>4 DEF Inner
  <2>6. Weight(Parent(j)) <= Weight(j) /\ Parent(j) \in 0 .. (HeapSize - 1) /\ Parent(j) < j
        /\ Weight(Parent(j)) \in Int /\ Weight(j) \in Int /\ Parent(j) \in Nat
    BY <1>t, <2>5, IdleOrdered, WeightFacts
  <2>7. Parent(j) \in Lighter
    BY <2>3, <2>4, <2>6
  <2>8. j <= Parent(j) /\ j \in Nat
    BY <2>2, <2>4, <2>7
  <2> QED BY <2>6, <2>8
<1>3. 0 \in 0 .. (HeapSize - 1)
  BY <1>t, <1>1
<1>4. ~(Weight(i) < Weight(0)) /\ Weight(i) \in Int /\ Weight(0) \in Int
  BY <1>t, <1>1, <1>2, <1>3, WeightFacts
<1> QED BY <1>1, <1>4 DEF Weight

(* After any mix of hits, misses, evictions and rebuilds, the front of the heap, which        *)
(* select_for_evict returns, has the least priority of all experts in the slot.               *)
THEOREM FrontCorrect == SpecHeap => []FrontIsLeast
BY InitHeapInv, NextHeapInv, InitOrder, NextOrder, OrderGivesFront, PTL DEF SpecHeap

-----------------------------------------------------------------------------
(* The list *)

(* The list alone, as the replacement policies use it.                                        *)
SpecList == InitList /\ [][NextList]_listVars

ListTypes ==
  /\ next \in [Linkable -> Linkable \cup {Null}]
  /\ prev \in [Linkable -> Linkable \cup {Null}]
  /\ len \in Nat

(* The nodes of q between the guards: 0 is the head, Len(q) + 1 the tail. *)
NodeAt(q, k) == IF k = 0 THEN GuardHead ELSE IF k = Len(q) + 1 THEN GuardTail ELSE q[k]

Different(q) == \A i, j \in 1 .. Len(q) : q[i] = q[j] => i = j

In(q, n) == \E i \in 1 .. Len(q) : q[i] = n

Chain(q) ==
  /\ len = Len(q)
  /\ \A k \in 0 .. Len(q) : next[NodeAt(q, k)] = NodeAt(q, k + 1) /\ prev[NodeAt(q, k + 1)] = NodeAt(q, k)
  /\ \A n \in ListNode : ~In(q, n) => next[n] = Null /\ prev[n] = Null

ChainInv == ListTypes /\ \E q \in Seq(ListNode) : Different(q) /\ Chain(q)

LEMMA Constants ==
  /\ GuardHead \notin ListNode /\ GuardTail \notin ListNode /\ Null \notin ListNode
  /\ GuardHead # GuardTail /\ GuardHead # Null /\ GuardTail # Null
<1>1. {GuardHead, GuardTail, Null} \cap ListNode = {}
  BY ListAssumption
<1>2. ASSUME NEW a, NEW b, {GuardHead, GuardTail, Null} = {a, b} PROVE FALSE
  <2>1. IsFiniteSet({a}) /\ Cardinality({a}) = 1
    BY FS_Singleton
  <2>2. Cardinality({a} \cup {b}) = IF b \in {a} THEN 1 ELSE 1 + 1
    BY <2>1, FS_AddElement
  <2>3. {a} \cup {b} = {GuardHead, GuardTail, Null}
    BY <1>2
  <2>4. Cardinality({GuardHead, GuardTail, Null}) # 3
    BY <2>2, <2>3
  <2> QED BY <2>4, ListAssumption
<1>3. GuardHead = GuardTail => FALSE
  <2>1. GuardHead = GuardTail => {GuardHead, GuardTail, Null} = {GuardHead, Null}
    OBVIOUS
  <2> QED BY <1>2, <2>1
<1>4. GuardHead = Null => FALSE
  <2>1. GuardHead = Null => {GuardHead, GuardTail, Null} = {GuardHead, GuardTail}
    OBVIOUS
  <2> QED BY <1>2, <2>1
<1>5. GuardTail = Null => FALSE
  <2>1. GuardTail = Null => {GuardHead, GuardTail, Null} = {GuardHead, GuardTail}
    OBVIOUS
  <2> QED BY <1>2, <2>1
<1> QED BY <1>1, <1>3, <1>4, <1>5

(* The places of a chain. *)
LEMMA Places ==
  ASSUME NEW q \in Seq(ListNode), Different(q)
  PROVE  /\ Len(q) \in Nat
         /\ NodeAt(q, 0) = GuardHead /\ NodeAt(q, Len(q) + 1) = GuardTail
         /\ \A k \in 1 .. Len(q) : NodeAt(q, k) = q[k] /\ q[k] \in ListNode
         /\ \A k \in 0 .. (Len(q) + 1) : NodeAt(q, k) \in Linkable
         /\ \A i, j \in 0 .. (Len(q) + 1) : NodeAt(q, i) = NodeAt(q, j) => i = j
<1>1. Len(q) \in Nat /\ \A k \in 1 .. Len(q) : q[k] \in ListNode
  OBVIOUS
<1>2. NodeAt(q, 0) = GuardHead /\ NodeAt(q, Len(q) + 1) = GuardTail
  BY <1>1 DEF NodeAt
<1>3. \A k \in 1 .. Len(q) : NodeAt(q, k) = q[k]
  BY <1>1 DEF NodeAt
<1>4. \A k \in 0 .. (Len(q) + 1) : k = 0 \/ k \in 1 .. Len(q) \/ k = Len(q) + 1
  BY <1>1
<1>5. \A k \in 0 .. (Len(q) + 1) : NodeAt(q, k) \in Linkable
  BY <1>1, <1>2, <1>3, <1>4 DEF Linkable
<1>6. \A i, j \in 0 .. (Len(q) + 1) : NodeAt(q, i) = NodeAt(q, j) => i = j
  BY <1>1, <1>2, <1>3, <1>4, Constants DEF Different
<1> QED BY <1>1, <1>2, <1>3, <1>5, <1>6

(* A node of the list is in the sequence. *)
LEMMA InChain ==
  ASSUME NEW q \in Seq(ListNode), Different(q), Chain(q), NEW n \in ListNode
  PROVE  InList(n) <=> In(q, n)
<1>1. ~In(q, n) => ~InList(n)
  BY DEF Chain, InList
<1>2. ASSUME NEW i \in 1 .. Len(q), q[i] = n PROVE InList(n)
  <2>1. i \in 0 .. Len(q) /\ i + 1 \in 0 .. (Len(q) + 1)
    BY Places
  <2>2. next[n] = NodeAt(q, i + 1) /\ NodeAt(q, i + 1) \in Linkable
    BY <1>2, <2>1, Places DEF Chain
  <2> QED BY <2>2, Constants DEF Linkable, InList
<1> QED BY <1>1, <1>2 DEF In

-----------------------------------------------------------------------------
LEMMA PushBackChain ==
  ASSUME ListTypes, NEW q \in Seq(ListNode), Different(q), Chain(q), NEW n \in ListNode, PushBack(n),
         NEW r, r = Append(q, n)
  PROVE  ListTypes' /\ r \in Seq(ListNode) /\ Different(r) /\ Chain(r)'
<1> DEFINE m == Len(q)
           last == NodeAt(q, m)
<1>1. ~In(q, n)
  BY InChain DEF PushBack
<1>2. /\ m \in Nat /\ r \in Seq(ListNode) /\ Len(r) = m + 1
      /\ \A k \in 1 .. m : r[k] = q[k]
      /\ r[m + 1] = n
  OBVIOUS
<1>3. \A k \in 1 .. (m + 1) : k \in 1 .. m \/ k = m + 1
  BY <1>2
<1>4. Different(r)
  BY <1>1, <1>2, <1>3 DEF Different, In
<1>5. /\ prev[GuardTail] = last /\ next[last] = GuardTail /\ last \in Linkable /\ len = m
  <2>1. m \in 0 .. m /\ m \in 0 .. (m + 1)
    BY <1>2
  <2> QED BY <2>1, Places DEF Chain
<1>6. /\ n \in Linkable /\ GuardTail \in Linkable /\ n # GuardTail /\ n # GuardHead
  BY Constants DEF Linkable
<1>7. \A k \in 0 .. (m + 1) : NodeAt(q, k) # n
  <2>1. \A k \in 0 .. (m + 1) : k = 0 \/ k \in 1 .. m \/ k = m + 1
    BY <1>2
  <2> QED BY <1>1, <1>6, <2>1, Places DEF In
<1>8. last # n
  BY <1>2, <1>7
<1>9. /\ next' = [next EXCEPT ![n] = GuardTail, ![last] = n]
      /\ prev' = [prev EXCEPT ![n] = last, ![GuardTail] = n]
      /\ len' = m + 1
  BY <1>5 DEF PushBack, InsertAfter
<1> HIDE DEF last
<1>10. /\ \A x \in Linkable : next'[x] = IF x = last THEN n ELSE IF x = n THEN GuardTail ELSE next[x]
       /\ \A x \in Linkable : prev'[x] = IF x = GuardTail THEN n ELSE IF x = n THEN last ELSE prev[x]
  BY <1>5, <1>6, <1>8, <1>9 DEF ListTypes
<1>11. ListTypes'
  BY <1>2, <1>5, <1>6, <1>9, SMTT(30) DEF ListTypes
<1>12. /\ \A k \in 0 .. m : NodeAt(r, k) = NodeAt(q, k)
       /\ NodeAt(r, m + 1) = n /\ NodeAt(r, m + 2) = GuardTail
  <2>1. /\ NodeAt(r, 0) = GuardHead /\ NodeAt(r, Len(r) + 1) = GuardTail
        /\ \A k \in 1 .. Len(r) : NodeAt(r, k) = r[k]
    BY <1>2, <1>4, Places
  <2>2. /\ NodeAt(q, 0) = GuardHead /\ \A k \in 1 .. m : NodeAt(q, k) = q[k]
    BY Places
  <2>3. /\ \A k \in 1 .. m : k \in 1 .. Len(r)
        /\ m + 1 \in 1 .. Len(r) /\ Len(r) + 1 = m + 2
        /\ \A k \in 0 .. m : k = 0 \/ k \in 1 .. m
    BY <1>2
  <2> QED BY <1>2, <2>1, <2>2, <2>3
<1>13. \A k \in 0 .. (m + 1) : next'[NodeAt(r, k)] = NodeAt(r, k + 1) /\ prev'[NodeAt(r, k + 1)] = NodeAt(r, k)
  <2> TAKE k \in 0 .. (m + 1)
  <2>1. CASE k \in 0 .. m /\ k # m
    <3>1. k \in 0 .. (m + 1) /\ k + 1 \in 0 .. m /\ k + 1 \in 0 .. (m + 1) /\ m \in 0 .. (m + 1)
          /\ m + 1 \in 0 .. (m + 1) /\ k + 1 # m + 1
      BY <1>2, <2>1
    <3>2. NodeAt(q, k) # last /\ NodeAt(q, k + 1) # GuardTail /\ NodeAt(q, k) \in Linkable /\ NodeAt(q, k + 1) \in Linkable
      BY <2>1, <3>1, Places DEF last
    <3>3. next[NodeAt(q, k)] = NodeAt(q, k + 1) /\ prev[NodeAt(q, k + 1)] = NodeAt(q, k)
      BY <2>1 DEF Chain
    <3>4. NodeAt(q, k) # n /\ NodeAt(q, k + 1) # n
      BY <1>7, <3>1
    <3>5. NodeAt(r, k) = NodeAt(q, k) /\ NodeAt(r, k + 1) = NodeAt(q, k + 1)
      BY <1>12, <2>1, <3>1
    <3> QED BY <1>10, <3>2, <3>3, <3>4, <3>5
  <2>2. CASE k = m
    <3>1. NodeAt(r, k) = last /\ NodeAt(r, k + 1) = n
      BY <1>2, <1>12, <2>2 DEF last
    <3> QED BY <1>5, <1>6, <1>10, <3>1
  <2>3. CASE k = m + 1
    <3>1. NodeAt(r, k) = n /\ NodeAt(r, k + 1) = GuardTail
      <4>1. (m + 1) + 1 = m + 2
        BY <1>2
      <4> QED BY <1>12, <2>3, <4>1
    <3> QED BY <1>6, <1>8, <1>10, <3>1
  <2>4. k \in 0 .. m \/ k = m + 1
    BY <1>2
  <2> QED BY <2>1, <2>2, <2>3, <2>4
<1>14. \A x \in ListNode : ~In(r, x) => next'[x] = Null /\ prev'[x] = Null
  <2> SUFFICES ASSUME NEW x \in ListNode, ~In(r, x) PROVE next'[x] = Null /\ prev'[x] = Null
    OBVIOUS
  <2>1. x # n /\ ~In(q, x)
    <3>1. m + 1 \in 1 .. Len(r) /\ \A k \in 1 .. m : k \in 1 .. Len(r)
      BY <1>2
    <3> QED BY <1>2, <3>1 DEF In
  <2>2. x # GuardTail /\ x # GuardHead /\ x \in Linkable
    BY Constants DEF Linkable
  <2>3. x # last
    <3>1. m = 0 \/ m \in 1 .. m
      BY <1>2
    <3> QED BY <2>1, <2>2, <3>1, Places DEF last, In
  <2> QED BY <1>10, <2>1, <2>2, <2>3 DEF Chain
<1> QED BY <1>2, <1>4, <1>9, <1>11, <1>13, <1>14 DEF Chain

(* The node at place p leaves; what is behind it moves up. *)
LEMMA RemoveChain ==
  ASSUME ListTypes, NEW q \in Seq(ListNode), Different(q), Chain(q), NEW p \in 1 .. Len(q),
         RemoveNode(q[p]),
         NEW r, r = [k \in 1 .. (Len(q) - 1) |-> IF k < p THEN q[k] ELSE q[k + 1]]
  PROVE  ListTypes' /\ r \in Seq(ListNode) /\ Different(r) /\ Chain(r)'
<1> DEFINE m == Len(q)
           n == q[p]
           before == NodeAt(q, p - 1)
           after == NodeAt(q, p + 1)
<1>1. /\ m \in Nat \ {0} /\ p \in 1 .. m /\ \A k \in 1 .. m : q[k] \in ListNode
  OBVIOUS
<1>2. \A k \in 1 .. (m - 1) : k \in 1 .. m /\ k + 1 \in 1 .. m
  BY <1>1
<1>3. r \in Seq(ListNode) /\ Len(r) = m - 1
  <2>1. r \in [1 .. (m - 1) -> ListNode] /\ m - 1 \in Nat
    BY <1>1, <1>2
  <2> QED BY <2>1
<1>4. \A k \in 1 .. (m - 1) : r[k] = IF k < p THEN q[k] ELSE q[k + 1]
  OBVIOUS
<1>5. Different(r)
  <2> SUFFICES ASSUME NEW i \in 1 .. (m - 1), NEW j \in 1 .. (m - 1), r[i] = r[j] PROVE i = j
    BY <1>3 DEF Different
  <2>1. (IF i < p THEN i ELSE i + 1) \in 1 .. m /\ (IF j < p THEN j ELSE j + 1) \in 1 .. m
    BY <1>2
  <2>2. q[IF i < p THEN i ELSE i + 1] = q[IF j < p THEN j ELSE j + 1]
    BY <1>4
  <2>3. (IF i < p THEN i ELSE i + 1) = (IF j < p THEN j ELSE j + 1)
    BY <2>1, <2>2 DEF Different
  <2> QED BY <1>1, <2>3
<1>6. /\ p - 1 \in 0 .. m /\ p \in 0 .. m /\ p + 1 \in 0 .. (m + 1) /\ p - 1 \in 0 .. (m + 1)
      /\ p \in 0 .. (m + 1) /\ (p - 1) + 1 = p /\ p - 1 # p + 1 /\ p # 0 /\ p # m + 1
      /\ p - 1 # m + 1 /\ p + 1 # 0 /\ p - 1 # p /\ p + 1 # p
  BY <1>1
<1>7. NodeAt(q, p) = n /\ n \in ListNode
  BY <1>1, Places
<1>8. next[n] = after /\ prev[n] = before /\ len = m
  BY <1>6, <1>7 DEF Chain
<1>9. before \in Linkable /\ after \in Linkable /\ n \in Linkable /\ before # n /\ after # n
  BY <1>6, <1>7, Places
<1>10. /\ next' = [next EXCEPT ![before] = after, ![n] = Null]
       /\ prev' = [prev EXCEPT ![after] = before, ![n] = Null]
       /\ len' = m - 1
  BY <1>8 DEF RemoveNode, Unlinked
<1> HIDE DEF n, before, after
<1>11. /\ \A x \in Linkable : next'[x] = IF x = n THEN Null ELSE IF x = before THEN after ELSE next[x]
       /\ \A x \in Linkable : prev'[x] = IF x = n THEN Null ELSE IF x = after THEN before ELSE prev[x]
  BY <1>9, <1>10 DEF ListTypes
<1>12. ListTypes'
  <2>1. m - 1 \in Nat
    BY <1>1
  <2> QED BY <1>9, <1>10, <2>1 DEF ListTypes
<1>13. /\ \A k \in 0 .. (p - 1) : NodeAt(r, k) = NodeAt(q, k)
       /\ \A k \in p .. m : NodeAt(r, k) = NodeAt(q, k + 1)
  <2>1. /\ NodeAt(r, 0) = GuardHead /\ NodeAt(r, m) = GuardTail
        /\ \A k \in 1 .. (m - 1) : NodeAt(r, k) = r[k]
    <3>1. Len(r) + 1 = m
      BY <1>1, <1>3
    <3> QED BY <1>3, <1>5, <3>1, Places
  <2>2. NodeAt(q, 0) = GuardHead /\ NodeAt(q, m + 1) = GuardTail /\ \A k \in 1 .. m : NodeAt(q, k) = q[k]
    BY Places
  <2>3. ASSUME NEW k \in 0 .. (p - 1) PROVE NodeAt(r, k) = NodeAt(q, k)
    <3>1. k = 0 \/ (k \in 1 .. (m - 1) /\ k \in 1 .. m /\ k < p)
      BY <1>1
    <3> QED BY <1>4, <2>1, <2>2, <3>1
  <2>4. ASSUME NEW k \in p .. m PROVE NodeAt(r, k) = NodeAt(q, k + 1)
    <3>1. k = m \/ (k \in 1 .. (m - 1) /\ k + 1 \in 1 .. m /\ ~(k < p))
      BY <1>1
    <3> QED BY <1>4, <2>1, <2>2, <3>1
  <2> QED BY <2>3, <2>4
<1>14. \A k \in 0 .. (m - 1) : next'[NodeAt(r, k)] = NodeAt(r, k + 1) /\ prev'[NodeAt(r, k + 1)] = NodeAt(r, k)
  <2> TAKE k \in 0 .. (m - 1)
  <2>1. CASE k < p - 1
    <3>1. /\ k \in 0 .. (p - 1) /\ k + 1 \in 0 .. (p - 1) /\ k \in 0 .. m
          /\ k \in 0 .. (m + 1) /\ k + 1 \in 0 .. (m + 1)
          /\ k # p /\ k + 1 # p /\ k # p - 1 /\ k + 1 # p + 1
      BY <1>1, <2>1
    <3>2. /\ NodeAt(q, k) # n /\ NodeAt(q, k + 1) # n /\ NodeAt(q, k) # before /\ NodeAt(q, k + 1) # after
          /\ NodeAt(q, k) \in Linkable /\ NodeAt(q, k + 1) \in Linkable
      BY <1>6, <1>7, <3>1, Places DEF before, after
    <3>3. next[NodeAt(q, k)] = NodeAt(q, k + 1) /\ prev[NodeAt(q, k + 1)] = NodeAt(q, k)
      BY <3>1 DEF Chain
    <3> QED BY <1>11, <1>13, <3>1, <3>2, <3>3
  <2>2. CASE k = p - 1
    <3>1. k \in 0 .. (p - 1) /\ k + 1 \in p .. m /\ k + 1 = p
      BY <1>1, <2>2
    <3>2. NodeAt(r, k) = before /\ NodeAt(r, k + 1) = after
      BY <1>13, <2>2, <3>1 DEF before, after
    <3> QED BY <1>9, <1>11, <3>2
  <2>3. CASE k > p - 1
    <3>1. /\ k \in p .. m /\ k + 1 \in p .. m /\ k + 1 \in 0 .. m
          /\ k + 1 \in 0 .. (m + 1) /\ k + 2 \in 0 .. (m + 1) /\ (k + 1) + 1 = k + 2
          /\ k + 1 # p /\ k + 2 # p /\ k + 1 # p - 1 /\ k + 2 # p + 1
      BY <1>1, <2>3
    <3>2. /\ NodeAt(q, k + 1) # n /\ NodeAt(q, k + 2) # n /\ NodeAt(q, k + 1) # before /\ NodeAt(q, k + 2) # after
          /\ NodeAt(q, k + 1) \in Linkable /\ NodeAt(q, k + 2) \in Linkable
      BY <1>6, <1>7, <3>1, Places DEF before, after
    <3>3. next[NodeAt(q, k + 1)] = NodeAt(q, k + 2) /\ prev[NodeAt(q, k + 2)] = NodeAt(q, k + 1)
      BY <3>1 DEF Chain
    <3>4. NodeAt(r, k) = NodeAt(q, k + 1) /\ NodeAt(r, k + 1) = NodeAt(q, k + 2)
      BY <1>13, <3>1
    <3> QED BY <1>11, <3>2, <3>3, <3>4
  <2> QED BY <1>1, <2>1, <2>2, <2>3
<1>15. \A x \in ListNode : ~In(r, x) => next'[x] = Null /\ prev'[x] = Null
  <2> SUFFICES ASSUME NEW x \in ListNode, ~In(r, x) PROVE next'[x] = Null /\ prev'[x] = Null
    OBVIOUS
  <2>1. x \in Linkable /\ x # GuardHead /\ x # GuardTail
    BY Constants DEF Linkable
  <2>2. ASSUME x # n PROVE ~In(q, x)
    <3> SUFFICES ASSUME NEW k \in 1 .. m, q[k] = x PROVE FALSE
      BY DEF In
    <3>1. k # p
      BY <2>2 DEF n
    <3>2. CASE k < p
      <4>1. k \in 1 .. (m - 1)
        BY <1>1, <3>2
      <4> QED BY <1>3, <1>4, <3>2, <4>1 DEF In
    <3>3. CASE p < k
      <4>1. k - 1 \in 1 .. (m - 1) /\ ~(k - 1 < p) /\ (k - 1) + 1 = k
        BY <1>1, <3>3
      <4> QED BY <1>3, <1>4, <4>1 DEF In
    <3> QED BY <1>1, <3>1, <3>2, <3>3
  <2>3. ASSUME x # n PROVE x # before /\ x # after
    <3>1. \A k \in 0 .. (m + 1) : k = 0 \/ k = m + 1 \/ k \in 1 .. m
      BY <1>1, SMTT(30)
    <3>2. \A k \in 0 .. (m + 1) : NodeAt(q, k) # x
      BY <2>1, <2>2, <2>3, <3>1, Places, ZenonT(40) DEF In
    <3> QED BY <1>6, <3>2 DEF before, after
  <2> QED BY <1>11, <2>1, <2>2, <2>3 DEF Chain
<1> QED BY <1>1, <1>3, <1>5, <1>10, <1>12, <1>14, <1>15 DEF Chain

LEMMA InitChain == InitList => ChainInv
<1> SUFFICES ASSUME InitList PROVE ChainInv
  OBVIOUS
<1>1. ListTypes
  BY Constants DEF InitList, ListTypes, Linkable
<1> DEFINE q == << >>
<1>2. q \in Seq(ListNode) /\ Len(q) = 0 /\ Different(q)
  BY DEF Different
<1>3. NodeAt(q, 0) = GuardHead /\ NodeAt(q, 1) = GuardTail
  BY <1>2 DEF NodeAt
<1>4. next[GuardHead] = GuardTail /\ prev[GuardTail] = GuardHead
  BY DEF InitList, Linkable
<1>5. \A n \in ListNode : next[n] = Null /\ prev[n] = Null
  BY Constants DEF InitList, Linkable
<1>6. Chain(q)
  <2> HIDE DEF q
  <2>1. \A k \in 0 .. 0 : k = 0 /\ k + 1 = 1
    OBVIOUS
  <2>2. len = 0
    BY DEF InitList
  <2> QED BY <1>2, <1>3, <1>4, <1>5, <2>1, <2>2 DEF Chain
<1> QED BY <1>1, <1>2, <1>6 DEF ChainInv

LEMMA NextChain == ChainInv /\ [NextList]_listVars => ChainInv'
<1> SUFFICES ASSUME ChainInv, [NextList]_listVars PROVE ChainInv'
  OBVIOUS
<1>1. PICK q \in Seq(ListNode) : Different(q) /\ Chain(q)
  BY DEF ChainInv
<1>2. ListTypes
  BY DEF ChainInv
<1>3. CASE UNCHANGED listVars
  BY <1>1, <1>2, <1>3 DEF listVars, ListTypes, Chain, ChainInv
<1>4. ASSUME NEW n \in ListNode, PushBack(n) PROVE ChainInv'
  BY <1>1, <1>2, <1>4, PushBackChain DEF ChainInv
<1>5. ASSUME NEW n \in ListNode, RemoveNode(n) PROVE ChainInv'
  <2>1. In(q, n)
    BY <1>1, <1>5, InChain DEF RemoveNode
  <2>2. PICK p \in 1 .. Len(q) : q[p] = n
    BY <2>1 DEF In
  <2> QED BY <1>1, <1>2, <1>5, <2>2, RemoveChain DEF ChainInv
<1> QED BY <1>3, <1>4, <1>5 DEF NextList

-----------------------------------------------------------------------------
(* A set of natural numbers has a least element: what stands in for induction. *)
LEMMA LeastNumber ==
  ASSUME NEW T, T \subseteq Nat, T # {}
  PROVE  \E x \in T : \A y \in T : ~(y < x)
<1> DEFINE R == {ss \in Nat \X Nat : ss[1] < ss[2]}
<1>1. IsWellFoundedOn(R, Nat)
  BY NatLessThanWellFounded, Zenon DEF OpToRel
<1>2. PICK x \in T : \A y \in T : ~(<<y, x>> \in R)
  BY <1>1, WFMin
<1> QED BY <1>2

(* Two walks that begin at one node, and leave each node they meet at for the same one. *)
Together(m, walk, chain) ==
  /\ walk[0] = chain[0]
  /\ \A k \in 1 .. m : walk[k - 1] = chain[k - 1] => walk[k] = chain[k]

(* A walk that starts where the chain starts, and steps as the chain does, is the chain. *)
LEMMA WalkIsChain ==
  \A m \in Nat : \A walk, chain : Together(m, walk, chain) => \A k \in 0 .. m : walk[k] = chain[k]
<1> SUFFICES ASSUME NEW m \in Nat, NEW walk, NEW chain, Together(m, walk, chain)
             PROVE  \A k \in 0 .. m : walk[k] = chain[k]
  OBVIOUS
<1> DEFINE T == {k \in 0 .. m : walk[k] # chain[k]}
<1> SUFFICES ASSUME T # {} PROVE FALSE
  OBVIOUS
<1>1. T \subseteq Nat
  OBVIOUS
<1>2. PICK k \in T : \A j \in T : ~(j < k)
  BY <1>1, LeastNumber
<1>3. k \in 1 .. m /\ k - 1 \in 0 .. m /\ k - 1 < k
  <2>1. k \in 0 .. m /\ walk[k] # chain[k]
    BY <1>2
  <2>2. k # 0
    BY <2>1 DEF Together
  <2> QED BY <2>1, <2>2
<1>4. walk[k - 1] = chain[k - 1]
  BY <1>2, <1>3
<1>5. walk[k] = chain[k]
  BY <1>3, <1>4 DEF Together
<1> QED BY <1>2, <1>5

LEMMA ListedIsChain ==
  ASSUME NEW q \in Seq(ListNode), Different(q), Chain(q)
  PROVE  Listed = [k \in 1 .. len |-> q[k]] /\ ListedBack = [k \in 1 .. len |-> q[k]]
<1>1. /\ len = Len(q) /\ len \in Nat
      /\ \A k \in 0 .. len : next[NodeAt(q, k)] = NodeAt(q, k + 1) /\ prev[NodeAt(q, k + 1)] = NodeAt(q, k)
      /\ NodeAt(q, 0) = GuardHead /\ NodeAt(q, len + 1) = GuardTail
      /\ \A k \in 1 .. len : NodeAt(q, k) = q[k]
  BY Places DEF Chain
<1>2. Listed = [k \in 1 .. len |-> q[k]]
  <2> DEFINE chain == [k \in 0 .. len |-> NodeAt(q, k)]
             W(f) == f = [k \in 0 .. len |-> IF k = 0 THEN GuardHead ELSE next[f[k - 1]]]
             walk == CHOOSE f : W(f)
  <2>1. W(chain)
    <3>1. ASSUME NEW k \in 0 .. len
          PROVE  chain[k] = IF k = 0 THEN GuardHead ELSE next[chain[k - 1]]
      <4>1. k = 0 \/ (k - 1 \in 0 .. len /\ (k - 1) + 1 = k)
        BY <1>1
      <4> QED BY <1>1, <4>1
    <3> QED BY <3>1
  <2>2. W(walk)
    BY <2>1
  <2> HIDE DEF walk
  <2>3. walk[0] = chain[0]
    BY <1>1, <2>2
  <2>4. \A k \in 1 .. len : walk[k] = next[walk[k - 1]]
    BY <1>1, <2>2
  <2>5. \A k \in 1 .. len : chain[k] = next[chain[k - 1]]
    <3>1. \A k \in 1 .. len : k \in 0 .. len /\ k # 0
      BY <1>1
    <3> QED BY <2>1, <3>1
  <2> HIDE DEF W
  <2>6. \A k \in 0 .. len : walk[k] = chain[k]
    <3>1. PICK c : c = chain
      OBVIOUS
    <3>2. PICK w : w = walk
      OBVIOUS
    <3> HIDE DEF chain
    <3>3. len \in Nat
      BY <1>1
    <3>4. Together(len, w, c)
      BY <2>3, <2>4, <2>5, <3>1, <3>2 DEF Together
    <3>5. \A k \in 0 .. len : w[k] = c[k]
      BY <3>3, <3>4, WalkIsChain
    <3> QED BY <3>1, <3>2, <3>5
  <2>7. \A k \in 1 .. len : walk[k] = q[k]
    BY <1>1, <2>6
  <2>8. Listed = [k \in 1 .. len |-> walk[k]]
    BY DEF Listed, walk, W
  <2> QED BY <2>7, <2>8
<1>3. ListedBack = [k \in 1 .. len |-> q[k]]
  <2> DEFINE chain == [k \in 0 .. len |-> NodeAt(q, len + 1 - k)]
             W(f) == f = [k \in 0 .. len |-> IF k = 0 THEN GuardTail ELSE prev[f[k - 1]]]
             walk == CHOOSE f : W(f)
  <2>1. W(chain)
    <3>1. ASSUME NEW k \in 0 .. len
          PROVE  chain[k] = IF k = 0 THEN GuardTail ELSE prev[chain[k - 1]]
      <4>1. \/ k = 0 /\ len + 1 - k = len + 1
            \/ /\ k # 0 /\ k - 1 \in 0 .. len /\ len + 1 - k \in 0 .. len
               /\ (len + 1 - k) + 1 = len + 1 - (k - 1)
        BY <1>1
      <4>2. CASE k = 0
        BY <1>1, <4>1, <4>2
      <4>3. CASE k # 0
        <5>1. chain[k - 1] = NodeAt(q, (len + 1 - k) + 1)
          BY <4>1, <4>3
        <5> QED BY <1>1, <4>1, <4>3, <5>1
      <4> QED BY <4>2, <4>3
    <3> QED BY <3>1
  <2>2. W(walk)
    BY <2>1
  <2> HIDE DEF walk
  <2>3. walk[0] = chain[0]
    <3>1. 0 \in 0 .. len /\ len + 1 - 0 = len + 1
      BY <1>1
    <3> QED BY <1>1, <2>2, <3>1
  <2>4. \A k \in 1 .. len : walk[k] = prev[walk[k - 1]]
    BY <1>1, <2>2
  <2>5. \A k \in 1 .. len : chain[k] = prev[chain[k - 1]]
    <3>1. \A k \in 1 .. len : k \in 0 .. len /\ k # 0
      BY <1>1
    <3> QED BY <2>1, <3>1
  <2> HIDE DEF W
  <2>6. \A k \in 0 .. len : walk[k] = chain[k]
    <3>1. PICK c : c = chain
      OBVIOUS
    <3>2. PICK w : w = walk
      OBVIOUS
    <3> HIDE DEF chain
    <3>3. len \in Nat
      BY <1>1
    <3>4. Together(len, w, c)
      BY <2>3, <2>4, <2>5, <3>1, <3>2 DEF Together
    <3>5. \A k \in 0 .. len : w[k] = c[k]
      BY <3>3, <3>4, WalkIsChain
    <3> QED BY <3>1, <3>2, <3>5
  <2>7. \A k \in 1 .. len : walk[len + 1 - k] = q[k]
    <3> TAKE k \in 1 .. len
    <3>1. len + 1 - k \in 0 .. len /\ len + 1 - (len + 1 - k) = k
      BY <1>1
    <3>2. walk[len + 1 - k] = chain[len + 1 - k]
      BY <2>6, <3>1
    <3>3. chain[len + 1 - k] = NodeAt(q, k)
      BY <3>1
    <3> QED BY <1>1, <3>2, <3>3
  <2>8. ListedBack = [k \in 1 .. len |-> walk[len + 1 - k]]
    BY DEF ListedBack, walk, W
  <2> QED BY <2>7, <2>8
<1> QED BY <1>2, <1>3

LEMMA ChainLinked == ChainInv => ListLinked
<1> SUFFICES ASSUME ChainInv PROVE ListLinked
  OBVIOUS
<1>1. PICK q \in Seq(ListNode) : Different(q) /\ Chain(q)
  BY DEF ChainInv
<1>2. Listed = [k \in 1 .. len |-> q[k]] /\ ListedBack = [k \in 1 .. len |-> q[k]]
  BY <1>1, ListedIsChain
<1>3. len = Len(q) /\ len \in Nat /\ \A k \in 1 .. len : q[k] \in ListNode
  BY <1>1, Places DEF Chain
<1> DEFINE S == {n \in ListNode : InList(n)}
<1>4. S = {q[k] : k \in 1 .. len}
  BY <1>1, <1>3, InChain DEF In
<1>5. {Listed[k] : k \in 1 .. len} = S
  BY <1>2, <1>4
<1>6. Cardinality(S) = len
  <2> DEFINE f == [k \in 1 .. len |-> q[k]]
  <2>1. f \in Bijection(1 .. len, S)
    BY <1>1, <1>3, <1>4 DEF Bijection, Injection, Surjection, IsInjective, Different
  <2>2. ExistsBijection(1 .. len, S)
    BY <2>1 DEF ExistsBijection
  <2>3. IsFiniteSet(1 .. len) /\ Cardinality(1 .. len) = len
    <3>1. 1 \in Int /\ len \in Int
      BY <1>3
    <3>2. /\ IsFiniteSet(1 .. len)
          /\ Cardinality(1 .. len) = IF 1 > len THEN 0 ELSE len - 1 + 1
      BY <3>1, FS_Interval
    <3> QED BY <1>3, <3>2
  <2> QED BY <2>2, <2>3, FS_Bijection
<1> QED BY <1>2, <1>5, <1>6 DEF ListLinked

(* Whatever nodes are pushed and removed, next and prev link the same nodes in opposite       *)
(* orders, and those are the nodes that belong to the list (LL::push_back, LL::remove).       *)
THEOREM ChainsAgree == SpecList => []ListLinked
BY InitChain, NextChain, ChainLinked, PTL DEF SpecList

-----------------------------------------------------------------------------
(* The order of the list *)

(* A sequence of numbered elements without the one at p. *)
LEMMA WithoutPlace ==
  ASSUME NEW S, NEW q \in Seq(S), NEW p \in 1 .. Len(q)
  PROVE  RemoveAt(q, p) = [k \in 1 .. (Len(q) - 1) |-> IF k < p THEN q[k] ELSE q[k + 1]]
<1> DEFINE n == Len(q)
<1>1. n \in Nat \ {0} /\ p \in 1 .. n /\ \A k \in 1 .. n : q[k] \in S
  OBVIOUS
<1>2. PICK a : a = SubSeq(q, 1, p - 1)
  OBVIOUS
<1>3. PICK b : b = SubSeq(q, p + 1, n)
  OBVIOUS
<1>4. RemoveAt(q, p) = a \o b
  BY <1>2, <1>3 DEF RemoveAt
<1>5. a \in Seq(S) /\ Len(a) = p - 1 /\ \A k \in 1 .. (p - 1) : a[k] = q[k]
  <2>1. 1 \in Int /\ p - 1 \in Int /\ \A k \in 1 .. (p - 1) : q[k] \in S
    BY <1>1
  <2>2. /\ a \in Seq(S)
        /\ Len(a) = IF 1 <= p - 1 THEN (p - 1) - 1 + 1 ELSE 0
        /\ \A k \in 1 .. ((p - 1) - 1 + 1) : a[k] = q[1 + k - 1]
    BY <1>2, <2>1, SubSeqProperties
  <2>3. (p - 1) - 1 + 1 = p - 1 /\ p - 1 \in Nat /\ \A k \in 1 .. (p - 1) : 1 + k - 1 = k
    BY <1>1, SMTT(30)
  <2> QED BY <2>2, <2>3
<1>6. b \in Seq(S) /\ Len(b) = n - p /\ \A k \in 1 .. (n - p) : b[k] = q[p + k]
  <2>1. p + 1 \in Int /\ n \in Int /\ \A k \in (p + 1) .. n : q[k] \in S
    BY <1>1
  <2>2. /\ b \in Seq(S)
        /\ Len(b) = IF p + 1 <= n THEN n - (p + 1) + 1 ELSE 0
        /\ \A k \in 1 .. (n - (p + 1) + 1) : b[k] = q[(p + 1) + k - 1]
    BY <1>3, <2>1, SubSeqProperties
  <2>3. n - (p + 1) + 1 = n - p /\ n - p \in Nat /\ \A k \in 1 .. (n - p) : (p + 1) + k - 1 = p + k
    BY <1>1
  <2>4. p + 1 <= n \/ n - p = 0
    BY <1>1, SMTT(30)
  <2>5. Len(b) = n - p
    BY <2>2, <2>3, <2>4
  <2> QED BY <2>2, <2>3, <2>5
<1> HIDE DEF n
<1>7. /\ Len(a \o b) = Len(a) + Len(b) /\ a \o b \in Seq(S)
      /\ \A k \in 1 .. (Len(a) + Len(b)) : (a \o b)[k] = IF k <= Len(a) THEN a[k] ELSE b[k - Len(a)]
  BY <1>5, <1>6, ConcatProperties
<1>8. Len(a) = p - 1 /\ Len(b) = n - p /\ Len(a) + Len(b) = n - 1 /\ n - 1 \in Nat
  BY <1>1, <1>5, <1>6
<1>9. a \o b \in [1 .. (n - 1) -> S]
  <2>1. \A x \in Seq(S) : x \in [1 .. Len(x) -> S]
    OBVIOUS
  <2> QED BY <1>7, <1>8, <2>1
<1>10. ASSUME NEW k \in 1 .. (n - 1) PROVE (a \o b)[k] = IF k < p THEN q[k] ELSE q[k + 1]
  <2>1. (a \o b)[k] = IF k <= p - 1 THEN a[k] ELSE b[k - (p - 1)]
    BY <1>7, <1>8
  <2>2. CASE k < p
    <3>1. k \in 1 .. (p - 1) /\ k <= p - 1
      BY <1>1, <2>2
    <3> QED BY <1>5, <2>1, <2>2, <3>1
  <2>3. CASE ~(k < p)
    <3>1. k - (p - 1) \in 1 .. (n - p) /\ ~(k <= p - 1) /\ p + (k - (p - 1)) = k + 1
      BY <1>1, <2>3
    <3> QED BY <1>6, <2>1, <2>3, <3>1
  <2> QED BY <2>2, <2>3
<1> QED BY <1>4, <1>9, <1>10 DEF n

(* What Listed is. *)
ListedChains == \A q \in Seq(ListNode) : Different(q) /\ Chain(q) => Listed = q

LEMMA ListedIs == ListedChains
<1> SUFFICES ASSUME NEW q \in Seq(ListNode), Different(q), Chain(q) PROVE Listed = q
  BY DEF ListedChains
<1>1. Listed = [k \in 1 .. len |-> q[k]] /\ len = Len(q)
  BY ListedIsChain DEF Chain
<1>2. q = [k \in 1 .. Len(q) |-> q[k]]
  OBVIOUS
<1> QED BY <1>1, <1>2

LEMMA NextOrdered ==
  ChainInv /\ ListedChains /\ ListedChains' /\ [NextList]_listVars =>
    [\/ \E n \in ListNode : Listed' = Append(Listed, n)
     \/ \E k \in 1 .. len : Listed' = RemoveAt(Listed, k)]_listVars
<1> SUFFICES ASSUME ChainInv, ListedChains, ListedChains', NextList
             PROVE  \/ \E n \in ListNode : Listed' = Append(Listed, n)
                    \/ \E k \in 1 .. len : Listed' = RemoveAt(Listed, k)
  OBVIOUS
<1>1. PICK q \in Seq(ListNode) : Different(q) /\ Chain(q)
  BY DEF ChainInv
<1>2. ListTypes /\ Listed = q /\ len = Len(q)
  BY <1>1 DEF ChainInv, ListedChains, Chain
<1>3. ASSUME NEW n \in ListNode, PushBack(n) PROVE Listed' = Append(Listed, n)
  <2>1. PICK r : r = Append(q, n)
    OBVIOUS
  <2>2. r \in Seq(ListNode) /\ Different(r) /\ Chain(r)'
    BY <1>1, <1>2, <1>3, <2>1, PushBackChain
  <2>3. Listed' = r
    BY <2>2 DEF ListedChains
  <2> QED BY <1>2, <2>1, <2>3
<1>4. ASSUME NEW n \in ListNode, RemoveNode(n) PROVE \E k \in 1 .. len : Listed' = RemoveAt(Listed, k)
  <2>1. In(q, n)
    BY <1>1, <1>4, InChain DEF RemoveNode
  <2>2. PICK p \in 1 .. Len(q) : q[p] = n
    BY <2>1 DEF In
  <2>3. PICK r : r = [k \in 1 .. (Len(q) - 1) |-> IF k < p THEN q[k] ELSE q[k + 1]]
    OBVIOUS
  <2>4. RemoveNode(q[p])
    BY <1>4, <2>2
  <2>5. r \in Seq(ListNode) /\ Different(r) /\ Chain(r)'
    BY <1>1, <1>2, <2>3, <2>4, RemoveChain
  <2>6. Listed' = r
    BY <2>5 DEF ListedChains
  <2>7. RemoveAt(q, p) = r
    BY <2>3, WithoutPlace
  <2> QED BY <1>2, <2>6, <2>7
<1> QED BY <1>3, <1>4 DEF NextList

(* The list is in the order of insertion: a node that is pushed comes last, and what is       *)
(* behind a removed node moves up (LL::push_back, LL::remove).                                *)
THEOREM OrderOfInsertion == SpecList => ListInOrder
BY InitChain, NextChain, ListedIs, NextOrdered, PTL DEF SpecList, ListInOrder

-----------------------------------------------------------------------------
(* The ring buffer *)

SpecQueue == InitQueue /\ [][NextQueue]_queueVars

LEMMA SameSequence ==
  ASSUME NEW S, NEW s \in Seq(S), NEW t \in Seq(S), Len(s) = Len(t),
         \A k \in 1 .. Len(s) : s[k] = t[k]
  PROVE  s = t
OBVIOUS

LEMMA SequenceOf ==
  ASSUME NEW S, NEW n \in Nat, NEW f \in [1 .. n -> S]
  PROVE  f \in Seq(S) /\ Len(f) = n
OBVIOUS

LEMMA AppendedTo ==
  ASSUME NEW S, NEW s \in Seq(S), NEW x \in S
  PROVE  /\ Append(s, x) \in Seq(S)
         /\ Len(Append(s, x)) = Len(s) + 1
         /\ \A i \in 1 .. Len(s) : Append(s, x)[i] = s[i]
         /\ Append(s, x)[Len(s) + 1] = x
OBVIOUS

LEMMA TailOf ==
  ASSUME NEW S, NEW q \in Seq(S), q # << >>
  PROVE  /\ Tail(q) \in Seq(S)
         /\ Len(q) \in Nat \ {0}
         /\ Len(Tail(q)) = Len(q) - 1
         /\ \A i \in 1 .. Len(Tail(q)) : Tail(q)[i] = q[i + 1]
OBVIOUS

(* Within one turn of a ring of size n, the remainder is the place itself, and within the next *)
(* turn n less.                                                                                *)
LEMMA RingPlace ==
  ASSUME NEW n \in Nat \ {0}, NEW i \in 0 .. (n - 1)
  PROVE  i % n = i /\ (i + n) % n = i /\ (i - n) % n = i
<1>1. i % n = i
  OBVIOUS
<1>2. (i + n) % n = i
  OBVIOUS
<1>3. (i - n) % n = i
  OBVIOUS
<1> QED BY <1>1, <1>2, <1>3

Held == Elem \cup {NoElem}

(* A ring of size n with a as its start and b as its stop, and what it holds. *)
Ring(n, f, a, b) ==
  /\ n \in Nat /\ n > 1 
  /\ f \in [0 .. (n - 1) -> Held]
  /\ a \in 0 .. (n - 1) /\ b \in 0 .. (n - 1)

HeldBy(n, f, a, b) == [k \in 1 .. ((b - a) % n) |-> f[(a + k - 1) % n]]

(* Without the remainders: how many places are taken, and which is the k-th. *)
Taken(n, a, b) == IF a <= b THEN b - a ELSE b - a + n
PlaceAt(n, a, k) == IF a + k - 1 < n THEN a + k - 1 ELSE a + k - 1 - n

RingInv == \E n \in 2 .. MaxSize : Ring(n, queue_buffer, start, stop)

LEMMA HeldByRing ==
  ASSUME NEW n, NEW f, NEW a, NEW b, Ring(n, f, a, b)
  PROVE  /\ HeldBy(n, f, a, b) \in Seq(Held)
         /\ Len(HeldBy(n, f, a, b)) = Taken(n, a, b)
         /\ Taken(n, a, b) \in 0 .. (n - 1)
         /\ \A k \in 1 .. Taken(n, a, b) : /\ PlaceAt(n, a, k) \in 0 .. (n - 1)
                                          /\ HeldBy(n, f, a, b)[k] = f[PlaceAt(n, a, k)]
<1>n. n \in Nat \ {0}
  BY DEF Ring
<1>1. Taken(n, a, b) \in 0 .. (n - 1) /\ (b - a) % n = Taken(n, a, b)
  <2>1. CASE a <= b
    <3>1. b - a \in 0 .. (n - 1)
      BY <2>1 DEF Ring
    <3> QED BY <3>1, <2>1, <1>n, RingPlace DEF Taken
  <2>2. CASE ~(a <= b)
    <3>1. b - a + n \in 0 .. (n - 1) /\ (b - a + n) - n = b - a
      BY <2>2 DEF Ring
    <3>2. ((b - a + n) - n) % n = b - a + n
      BY <3>1, <1>n, RingPlace
    <3> QED BY <3>1, <3>2, <2>2 DEF Taken
  <2> QED BY <2>1, <2>2
<1>2. ASSUME NEW k \in 1 .. Taken(n, a, b)
      PROVE  PlaceAt(n, a, k) \in 0 .. (n - 1) /\ (a + k - 1) % n = PlaceAt(n, a, k)
  <2>1. CASE a + k - 1 < n
    <3>1. a + k - 1 \in 0 .. (n - 1)
      BY <1>1, <2>1 DEF Ring
    <3> QED BY <3>1, <2>1, <1>n, RingPlace DEF PlaceAt
  <2>2. CASE ~(a + k - 1 < n)
    <3>1. a + k - 1 - n \in 0 .. (n - 1) /\ (a + k - 1 - n) + n = a + k - 1
      BY <1>1, <2>2 DEF Ring
    <3>2. ((a + k - 1 - n) + n) % n = a + k - 1 - n
      BY <3>1, <1>n, RingPlace
    <3> QED BY <3>1, <3>2, <2>2 DEF PlaceAt
  <2> QED BY <2>1, <2>2
<1>3. HeldBy(n, f, a, b) = [k \in 1 .. Taken(n, a, b) |-> f[PlaceAt(n, a, k)]]
  BY <1>1, <1>2 DEF HeldBy
<1>4. HeldBy(n, f, a, b) \in [1 .. Taken(n, a, b) -> Held]
  BY <1>2, <1>3 DEF Ring
<1>5. HeldBy(n, f, a, b) \in Seq(Held) /\ Len(HeldBy(n, f, a, b)) = Taken(n, a, b)
  BY <1>4, <1>1, SequenceOf
<1> QED BY <1>1, <1>2, <1>3, <1>5

(* One more place is taken, and holds x: x has been added behind. *)
LEMMA AddedBehind ==
  ASSUME NEW n, NEW f, NEW m, NEW g, NEW a, NEW b, NEW c, NEW x \in Elem, NEW d \in Nat,
         Ring(n, f, a, b), Ring(m, g, a, c), Taken(n, a, b) = d, Taken(m, a, c) = d + 1,
         g[PlaceAt(m, a, d + 1)] = x,
         \A k \in 1 .. d : g[PlaceAt(m, a, k)] = f[PlaceAt(n, a, k)]
  PROVE  HeldBy(m, g, a, c) = Append(HeldBy(n, f, a, b), x)
<1> DEFINE s == HeldBy(n, f, a, b)
           t == HeldBy(m, g, a, c)
<1>1. /\ s \in Seq(Held) /\ Len(s) = d
      /\ \A k \in 1 .. d : s[k] = f[PlaceAt(n, a, k)]
  BY HeldByRing, SMTT(30) DEF Ring
<1>2. /\ t \in Seq(Held) /\ Len(t) = d + 1
      /\ \A k \in 1 .. Len(t) : t[k] = g[PlaceAt(m, a, k)]
  BY HeldByRing
<1>n. Len(t) = Len(s) + 1
  BY <1>1, <1>2
<1> HIDE DEF s, t
<1>3. /\ Append(s, x) \in Seq(Held) /\ Len(Append(s, x)) = Len(s) + 1
      /\ \A k \in 1 .. Len(s) : Append(s, x)[k] = s[k]
      /\ Append(s, x)[Len(s) + 1] = x
  BY <1>1, AppendedTo DEF Held
<1>4. ASSUME NEW k \in 1 .. Len(t) PROVE t[k] = Append(s, x)[k]
  <2>1. CASE k = Len(s) + 1
    BY <2>1, <1>n, <1>1, <1>2, <1>3
  <2>2. CASE k # Len(s) + 1
    <3>1. k \in 1 .. d
      BY <2>2, <1>n, <1>1, <1>2
    <3> QED BY <3>1, <1>1, <1>2, <1>3
  <2> QED BY <2>1, <2>2
<1>5. t = Append(s, x)
  BY <1>n, <1>2, <1>3, <1>4, SameSequence
<1> QED BY <1>5 DEF s, t

(* Start moves one place on: the front has been taken. *)
LEMMA FrontTaken ==
  ASSUME NEW n, NEW f, NEW a, NEW b, NEW c, Ring(n, f, a, b), a # b, c = NextPlace(a, n)
  PROVE  /\ Ring(n, f, c, b)
         /\ HeldBy(n, f, a, b) # << >>
         /\ HeldBy(n, f, c, b) = Tail(HeldBy(n, f, a, b))
<1> DEFINE s == HeldBy(n, f, a, b)
           t == HeldBy(n, f, c, b)
<1>1. c = PlaceAt(n, a, 2) /\ c \in 0 .. (n - 1)
  <2>1. CASE a + 1 < n
    BY <2>1, RingPlace DEF NextPlace, PlaceAt, Ring
  <2>2. CASE a + 1 = n
    BY <2>2, RingPlace DEF NextPlace, PlaceAt, Ring
  <2> QED BY <2>1, <2>2 DEF Ring
<1>2. Ring(n, f, c, b)
  BY <1>1 DEF Ring
<1>3. Taken(n, a, b) > 0 /\ Taken(n, c, b) = Taken(n, a, b) - 1
  BY <1>1 DEF Taken, Ring, PlaceAt
<1>4. /\ s \in Seq(Held) /\ Len(s) = Taken(n, a, b) /\ Len(s) \in Nat \ {0}
      /\ \A k \in 1 .. Len(s) : s[k] = f[PlaceAt(n, a, k)]
  BY <1>3, HeldByRing DEF Ring
<1>5. /\ t \in Seq(Held) /\ Len(t) = Len(s) - 1
      /\ \A k \in 1 .. Len(t) : t[k] = f[PlaceAt(n, c, k)]
  BY <1>2, <1>3, <1>4, HeldByRing
<1>6. ASSUME NEW k \in 1 .. Len(t) PROVE k + 1 \in 1 .. Len(s) /\ PlaceAt(n, c, k) = PlaceAt(n, a, k + 1)
  <2>1. k + 1 \in 1 .. Len(s) /\ Len(s) < n
    BY <1>4, <1>5, HeldByRing, SMTT(30) DEF Ring
  <2> HIDE DEF s, t
  <2> QED BY <2>1, <1>1 DEF PlaceAt, Ring
<1> HIDE DEF s, t
<1>7. s # << >>
  BY <1>4
<1>8. /\ Tail(s) \in Seq(Held) /\ Len(Tail(s)) = Len(s) - 1
      /\ \A i \in 1 .. Len(Tail(s)) : Tail(s)[i] = s[i + 1]
  BY <1>4, <1>7, TailOf
<1>9. \A k \in 1 .. Len(t) : t[k] = Tail(s)[k]
  BY <1>4, <1>5, <1>6, <1>8
<1>10. t = Tail(s)
  BY <1>5, <1>8, <1>9, SameSequence
<1> QED BY <1>2, <1>7, <1>10 DEF s, t

LEMMA RingSizeIs ==
  ASSUME NEW n \in 2 .. MaxSize, Ring(n, queue_buffer, start, stop)
  PROVE  RingSize = n
<1>a. MaxSize \in Nat
  BY RingAssumption
<1> SUFFICES ASSUME NEW m \in 1 .. MaxSize, 0 .. (n - 1) = 0 .. (m - 1) PROVE m = n
  BY <1>a DEF RingSize, Ring
<1>1. n - 1 \in 0 .. (m - 1) /\ m - 1 \in 0 .. (n - 1)
  BY <1>a
<1> QED BY <1>1, <1>a

(* The ring after a step, from which Contents' is read. *)
LEMMA RingSizeNext ==
  ASSUME NEW n \in 2 .. MaxSize, Ring(n, queue_buffer', start', stop')
  PROVE  RingSize' = n
<1>a. MaxSize \in Nat
  BY RingAssumption
<1> SUFFICES ASSUME NEW m \in 1 .. MaxSize, 0 .. (n - 1) = 0 .. (m - 1) PROVE m = n
  BY <1>a DEF RingSize, Ring
<1>1. n - 1 \in 0 .. (m - 1) /\ m - 1 \in 0 .. (n - 1)
  BY <1>a
<1> QED BY <1>1, <1>a

LEMMA PushAdds ==
  ASSUME RingInv, NEW x \in Elem, Push(x)
  PROVE  RingInv' /\ Contents' = Append(Contents, x)
<1> PICK n \in 2 .. MaxSize : Ring(n, queue_buffer, start, stop)
  BY DEF RingInv
<1>a. MaxSize \in Nat /\ n \in Nat \ {0, 1} /\ x \in Held /\ NoElem \in Held
  BY RingAssumption DEF Held
<1>n. RingSize = n
  BY RingSizeIs
<1>t. start \in 0 .. (n - 1) /\ stop \in 0 .. (n - 1) /\ queue_buffer \in [0 .. (n - 1) -> Held]
  BY DEF Ring
<1>d. /\ Taken(n, start, stop) \in 0 .. (n - 1)
      /\ \A k \in 1 .. Taken(n, start, stop) : PlaceAt(n, start, k) \in 0 .. (n - 1)
  BY HeldByRing
<1>1. NextPlace(stop, n) = IF stop + 1 < n THEN stop + 1 ELSE 0
  <2>1. stop + 1 \in 0 .. (n - 1) \/ stop + 1 = n
    BY <1>a, <1>t
  <2> QED BY <2>1, <1>a, RingPlace DEF NextPlace
<1>2. ASSUME NEW m \in 2 .. MaxSize, NEW b,
             Ring(m, queue_buffer', start, b),
             stop' = b, start' = start, NEW d \in Nat,
             Taken(n, start, stop) = d, Taken(m, start, b) = d + 1,
             queue_buffer'[PlaceAt(m, start, d + 1)] = x,
             \A k \in 1 .. d :
               queue_buffer'[PlaceAt(m, start, k)] = queue_buffer[PlaceAt(n, start, k)]
      PROVE  RingInv' /\ Contents' = Append(Contents, x)
  <2>1. RingInv' /\ RingSize' = m
    BY <1>2, RingSizeNext DEF RingInv
  <2>2. Contents = HeldBy(n, queue_buffer, start, stop)
    BY <1>n DEF Contents, HeldBy
  <2>3. Contents' = HeldBy(m, queue_buffer', start, b)
    BY <1>2, <2>1 DEF Contents, HeldBy
  <2>4. HeldBy(m, queue_buffer', start, b) = Append(HeldBy(n, queue_buffer, start, stop), x)
    <3>1. Ring(n, queue_buffer, start, stop) /\ Ring(m, queue_buffer', start, b)
      BY <1>2
    <3> QED BY <3>1, <1>2, <1>d, AddedBehind, SMTT(30)
  <2> QED BY <2>1, <2>2, <2>3, <2>4
<1>3. CASE ~IsFull
  <2>1. /\ queue_buffer' = [queue_buffer EXCEPT ![stop] = x] /\ start' = start
        /\ stop' = NextPlace(stop, n) /\ stop' # start
    BY <1>3, <1>n DEF Push, IsFull
  <2>2. Ring(n, queue_buffer', start, stop')
    BY <2>1, <1>1, <1>a, <1>t DEF Ring
  <2>3. Taken(n, start, stop') = Taken(n, start, stop) + 1
    BY <2>1, <1>1, <1>a, <1>t DEF Taken
  <2>4. /\ PlaceAt(n, start, Taken(n, start, stop) + 1) = stop
        /\ \A k \in 1 .. Taken(n, start, stop) : PlaceAt(n, start, k) # stop
    BY <1>a, <1>t DEF Taken, PlaceAt
  <2> DEFINE d == Taken(n, start, stop)
  <2>5. d \in Nat /\ d = Taken(n, start, stop) /\ Taken(n, start, stop') = d + 1
    BY <2>3, <1>a, <1>d
  <2>6. queue_buffer'[PlaceAt(n, start, d + 1)] = x
    BY <2>1, <2>4, <1>t
  <2>7. \A k \in 1 .. d : queue_buffer'[PlaceAt(n, start, k)] = queue_buffer[PlaceAt(n, start, k)]
    BY <2>1, <2>4, <1>t, <1>d
  <2> HIDE DEF d
  <2> QED BY <2>1, <2>2, <2>5, <2>6, <2>7, <1>2
<1>4. CASE IsFull
  <2> DEFINE big == Extended.buffer
             end == Extended.stop
  <2>1. /\ 2 * n <= MaxSize /\ queue_buffer' = [big EXCEPT ![end] = x] /\ start' = start
        /\ stop' = NextPlace(end, 2 * n)
    BY <1>4, <1>n DEF Push
  <2>f. (start = 0 /\ stop = n - 1) \/ stop = start - 1
    BY <1>4, <1>n, <1>1, <1>a, <1>t DEF IsFull
  <2>2. end = (IF start < stop THEN stop ELSE n + stop) /\ end \in 0 .. (2 * n - 2)
    BY <1>n, <1>a, <1>t, <2>f DEF Extended
  <2>3. big = [i \in 0 .. (2 * n - 1) |->
                 IF i < n THEN queue_buffer[i]
                 ELSE IF stop <= start /\ i - n < stop THEN queue_buffer[i - n]
                 ELSE NoElem]
    BY <1>n DEF Extended
  <2> HIDE DEF big, end
  <2>4. big \in [0 .. (2 * n - 1) -> Held]
    BY <2>3, <1>a, <1>t
  <2>5. stop' = end + 1
    <3>1. end + 1 \in 0 .. (2 * n - 1) /\ 2 * n \in Nat \ {0}
      BY <2>2, <1>a
    <3> QED BY <3>1, <2>1, RingPlace DEF NextPlace
  <2>6. 2 * n \in 2 .. MaxSize /\ Ring(2 * n, queue_buffer', start, stop')
    BY <2>1, <2>2, <2>4, <2>5, <1>a, <1>t DEF Ring
  <2>7. Taken(n, start, stop) = n - 1 /\ Taken(2 * n, start, stop') = n
    BY <2>f, <2>2, <2>5, <1>a, <1>t DEF Taken
  <2>8. PlaceAt(2 * n, start, n) = end
    BY <2>f, <2>2, <1>a, <1>t DEF PlaceAt
  <2>9. ASSUME NEW k \in 1 .. (n - 1)
        PROVE  queue_buffer'[PlaceAt(2 * n, start, k)] = queue_buffer[PlaceAt(n, start, k)]
    <3>1. PlaceAt(2 * n, start, k) = start + k - 1 /\ start + k - 1 \in 0 .. (2 * n - 1) /\ start + k - 1 # end
      BY <2>f, <2>2, <1>a, <1>t DEF PlaceAt
    <3>2. queue_buffer'[PlaceAt(2 * n, start, k)] = big[start + k - 1]
      BY <3>1, <2>1, <2>4
    <3>3. big[start + k - 1] = queue_buffer[PlaceAt(n, start, k)]
      BY <3>1, <2>3, <2>f, <1>a, <1>t DEF PlaceAt
    <3> QED BY <3>2, <3>3
  <2>10. queue_buffer'[PlaceAt(2 * n, start, n)] = x
    <3>1. queue_buffer' = [big EXCEPT ![end] = x]
      BY <2>1
    <3>2. end \in 0 .. (2 * n - 1)
      BY <2>2, <1>a
    <3> QED BY <2>4, <2>8, <3>1, <3>2
  <2> DEFINE d == n - 1
  <2>11. d \in Nat /\ d + 1 = n
    BY <1>a
  <2>12. Taken(n, start, stop) = d /\ Taken(2 * n, start, stop') = d + 1
    BY <2>7, <2>11
  <2>13. /\ queue_buffer'[PlaceAt(2 * n, start, d + 1)] = x
         /\ \A k \in 1 .. d : queue_buffer'[PlaceAt(2 * n, start, k)] = queue_buffer[PlaceAt(n, start, k)]
    BY <2>9, <2>10, <2>11
  <2> HIDE DEF d
  <2> QED BY <2>1, <2>6, <2>11, <2>12, <2>13, <1>2, ZenonT(40)
<1> QED BY <1>3, <1>4

LEMMA PopTakes ==
  ASSUME RingInv, Pop
  PROVE  RingInv' /\ Contents # << >> /\ Contents' = Tail(Contents)
<1> PICK n \in 2 .. MaxSize : Ring(n, queue_buffer, start, stop)
  BY DEF RingInv
<1>1. RingSize = n
  BY RingSizeIs
<1>2. start # stop /\ start' = NextPlace(start, n) /\ queue_buffer' = queue_buffer /\ stop' = stop
  BY <1>1 DEF Pop, IsEmpty
<1>3. /\ Ring(n, queue_buffer, start', stop)
      /\ HeldBy(n, queue_buffer, start, stop) # << >>
      /\ HeldBy(n, queue_buffer, start', stop) = Tail(HeldBy(n, queue_buffer, start, stop))
  BY <1>2, FrontTaken
<1>4. RingInv' /\ RingSize' = n
  BY <1>2, <1>3, RingSizeNext DEF RingInv
<1>5. Contents = HeldBy(n, queue_buffer, start, stop) /\ Contents' = HeldBy(n, queue_buffer, start', stop)
  BY <1>1, <1>2, <1>4 DEF Contents, HeldBy
<1> QED BY <1>3, <1>4, <1>5

LEMMA ClearEmpties ==
  ASSUME RingInv, Clear
  PROVE  RingInv' /\ Contents' = << >> /\ start' = stop
<1> PICK n \in 2 .. MaxSize : Ring(n, queue_buffer, start, stop)
  BY DEF RingInv
<1>1. start' = stop /\ queue_buffer' = queue_buffer /\ stop' = stop
  BY DEF Clear
<1>2. Ring(n, queue_buffer', start', stop')
  BY <1>1 DEF Ring
<1>3. RingInv' /\ RingSize' = n
  BY <1>2, RingSizeNext DEF RingInv
<1>4. Contents' = HeldBy(n, queue_buffer', start', stop')
  BY <1>3 DEF Contents, HeldBy
<1>5. Taken(n, start', stop') = 0
  BY <1>1, <1>2 DEF Taken, Ring
<1>6. HeldBy(n, queue_buffer', start', stop') = << >>
  BY <1>2, <1>5, HeldByRing
<1> QED BY <1>1, <1>3, <1>4, <1>6

LEMMA InitRing == InitQueue => RingInv
<1> SUFFICES ASSUME InitQueue PROVE RingInv
  OBVIOUS
<1>1. InitialSize \in 2 .. MaxSize
  BY RingAssumption
<1>2. Ring(InitialSize, queue_buffer, start, stop)
  BY <1>1, RingAssumption DEF InitQueue, Ring, Held
<1> QED BY <1>1, <1>2 DEF RingInv

LEMMA NextRing ==
  ASSUME RingInv, [NextQueue]_queueVars
  PROVE  /\ RingInv'
         /\ [\/ \E x \in Elem : Contents' = Append(Contents, x)
             \/ Contents # << >> /\ Contents' = Tail(Contents)
             \/ Contents' = << >> /\ start' = stop]_queueVars
<1>1. CASE NextQueue
  BY <1>1, PushAdds, PopTakes, ClearEmpties DEF NextQueue
<1>2. CASE UNCHANGED queueVars
  <2>1. RingInv'
    BY <1>2 DEF queueVars, RingInv
  <2> QED BY <1>2, <2>1
<1> QED BY <1>1, <1>2

(* What is between start and stop of the ring, wrapped or not, is a queue: a push adds        *)
(* behind the last element, also when it doubles the ring, and a pop takes the first.         *)
THEOREM RingIsQueue == SpecQueue => QueueIsFifo
<1>1. SpecQueue => [](RingInv)
  <2>1. RingInv /\ [NextQueue]_queueVars => RingInv'
    BY NextRing
  <2> QED BY <2>1, InitRing, PTL DEF SpecQueue
<1>2. RingInv /\ [NextQueue]_queueVars =>
         [\/ \E x \in Elem : Contents' = Append(Contents, x)
          \/ Contents # << >> /\ Contents' = Tail(Contents)
          \/ Contents' = << >> /\ start' = stop]_queueVars
  BY NextRing
<1> QED BY <1>1, <1>2, PTL DEF SpecQueue, QueueIsFifo

-----------------------------------------------------------------------------
(* The mapping of the predictors *)

(* The configurations that handle_uninited_configs leaves. *)
Sensible(m) ==
  /\ m.num_layer \in Nat \ {0} /\ m.interval \in Nat \ {0}
  /\ m.window \in Nat \ {0} /\ m.first_window \in Nat

LEMMA GreatestIs ==
  ASSUME NEW S \in SUBSET Int, NEW x \in S, \A y \in S : y <= x
  PROVE  Max(S) = x
<1>1. \A y \in S : x >= y
  OBVIOUS
<1>2. Max(S) \in S /\ \A y \in S : Max(S) >= y
  BY <1>1 DEF Max
<1>3. Max(S) >= x /\ Max(S) <= x /\ Max(S) \in Int /\ x \in Int
  BY <1>2
<1> QED BY <1>3

LEMMA GreatestOf ==
  ASSUME NEW N \in Nat, NEW S \in SUBSET (0 .. N), S # {}
  PROVE  Max(S) \in S /\ \A y \in S : y <= Max(S)
<1> DEFINE B == {b \in 0 .. N : \A y \in S : y <= b}
<1>1. N \in B /\ B \subseteq Nat
  OBVIOUS
<1>2. PICK b \in B : \A c \in B : b <= c
  BY <1>1, LeastElement
<1>3. b \in S
  <2> SUFFICES ASSUME b \notin S PROVE FALSE
    OBVIOUS
  <2>1. \A y \in S : y < b /\ y \in Nat
    <3>1. \A y \in S : y <= b /\ y # b /\ y \in Nat /\ b \in Nat
      BY <1>2
    <3> QED BY <3>1
  <2>2. b # 0 /\ b - 1 \in 0 .. N
    <3>1. b \in 0 .. N
      BY <1>2
    <3>2. PICK y : y \in S
      OBVIOUS
    <3>3. y < b /\ y \in Nat
      BY <2>1, <3>2
    <3> QED BY <3>1, <3>3
  <2>3. b - 1 \in B
    BY <2>1, <2>2
  <2> QED BY <1>2, <2>3
<1>4. \A y \in S : y <= b
  BY <1>2
<1>5. Max(S) = b
  BY <1>3, <1>4, GreatestIs
<1> QED BY <1>3, <1>4, <1>5

LEMMA LeastIs ==
  ASSUME NEW a \in Int, NEW b \in Int
  PROVE  Min({a, b}) = IF a <= b THEN a ELSE b
<1>1. CASE a <= b
  <2>1. Min({a, b}) \in {a, b} /\ \A y \in {a, b} : Min({a, b}) =< y
    BY <1>1 DEF Min
  <2> QED BY <1>1, <2>1
<1>2. CASE ~(a <= b)
  <2>1. Min({a, b}) \in {a, b} /\ \A y \in {a, b} : Min({a, b}) =< y
    BY <1>2 DEF Min
  <2> QED BY <1>2, <2>1
<1> QED BY <1>1, <1>2

LEMMA MultipleBelow ==
  ASSUME NEW i \in Nat \ {0}, NEW l \in Nat
  PROVE  /\ 0 % i = 0
         /\ l % i \in 0 .. (i - 1) /\ (l - (l % i)) % i = 0 /\ l - (l % i) \in 0 .. l
         /\ l # 0 /\ l % i = 0 => l >= i /\ (l - i) % i = 0
         /\ l # 0 /\ l < i => l % i # 0
<1> DEFINE r == l % i
           d == l \div i
<1>1. r \in 0 .. (i - 1) /\ d \in Nat /\ l = i * d + r
  OBVIOUS
<1>2. 0 % i = 0 /\ (l < i => l % i = l)
  OBVIOUS
<1> HIDE DEF r, d
<1>3. l - r = i * d /\ l - r \in 0 .. l
  BY <1>1
<1>4. \A n \in Nat : (i * n) % i = 0
  OBVIOUS
<1>5. (l - r) % i = 0
  BY <1>1, <1>3, <1>4
<1>6. l # 0 /\ l % i = 0 => l >= i
  BY <1>2
<1>7. l # 0 /\ r = 0 => (l - i) % i = 0
  <2> SUFFICES ASSUME l # 0, r = 0 PROVE (l - i) % i = 0
    OBVIOUS
  <2>1. d # 0 /\ d - 1 \in Nat /\ l - i = i * (d - 1)
    BY <1>1
  <2> QED BY <1>4, <2>1
<1> QED BY <1>1, <1>2, <1>3, <1>5, <1>6, <1>7 DEF r

LEMMA StopFacts ==
  ASSUME NEW m, Sensible(m), NEW l \in Nat
  PROVE  /\ Window(m, l) \in Nat
         /\ Stop(m, l) = IF l + Window(m, l) <= m.num_layer THEN l + Window(m, l) ELSE m.num_layer
         /\ Stop(m, l) \in 0 .. m.num_layer
<1>1. Window(m, l) \in Nat
  BY DEF Sensible, Window, FirstWindow
<1>2. Stop(m, l) = IF l + Window(m, l) <= m.num_layer THEN l + Window(m, l) ELSE m.num_layer
  BY <1>1, LeastIs DEF Stop, Sensible
<1> QED BY <1>1, <1>2 DEF Sensible

(* What the first loop writes is the end of a prediction before, and none is missed. *)
LEMMA WrittenFacts ==
  ASSUME NEW m, Sensible(m), NEW l \in Nat
  PROVE  /\ Written(m, l) \in 0 .. m.num_layer
         /\ Written(m, l) # 0 => \E k \in Nat : k < l /\ Predicting(m, k) /\ Written(m, l) = Stop(m, k)
         /\ Predicting(m, l) => Written(m, l + 1) = Stop(m, l)
<1>1. CASE Predicting(m, l - 1)
  <2>1. l - 1 \in Nat /\ Written(m, l) = Stop(m, l - 1)
    BY <1>1 DEF Predicting, Written
  <2> QED BY <1>1, <2>1, StopFacts DEF Written
<1>2. CASE ~Predicting(m, l - 1) /\ Predicting(m, l) /\ l # 0
  <2>1. m.interval \in Nat \ {0} /\ l \in 0 .. (m.num_layer - 1) /\ l % m.interval = 0
    BY <1>2 DEF Predicting, Sensible
  <2>2. l >= m.interval /\ (l - m.interval) % m.interval = 0
    BY <1>2, <2>1, MultipleBelow
  <2>3. l - m.interval \in Nat /\ l - m.interval < l /\ Predicting(m, l - m.interval)
    BY <2>1, <2>2 DEF Predicting, Sensible
  <2>4. Written(m, l) = Stop(m, l - m.interval)
    BY <1>2 DEF Written
  <2> QED BY <2>3, <2>4, StopFacts DEF Written
<1>3. CASE ~Predicting(m, l - 1) /\ ~(Predicting(m, l) /\ l # 0)
  <2>1. Written(m, l) = 0
    BY <1>3 DEF Written
  <2> QED BY <2>1 DEF Written, Sensible
<1> QED BY <1>1, <1>2, <1>3

LEMMA LayersFacts ==
  ASSUME NEW m, Sensible(m), NEW l \in Nat
  PROVE  /\ PredictLayers(m, l) \in 0 .. m.num_layer
         /\ PredictLayers(m, l) <= PredictLayers(m, l + 1)
         /\ PredictLayers(m, l) # 0 =>
              \E k \in Nat : k < l /\ Predicting(m, k) /\ PredictLayers(m, l) = Stop(m, k)
         /\ \A k \in Nat : k < l /\ Predicting(m, k) => Stop(m, k) <= PredictLayers(m, l)
         /\ PredictLayers(m, 0) = 0
<1> DEFINE W(n) == {Written(m, k) : k \in 0 .. n}
<1>1. ASSUME NEW n \in Nat
      PROVE  Max(W(n)) \in W(n) /\ (\A y \in W(n) : y <= Max(W(n))) /\ Max(W(n)) \in 0 .. m.num_layer
  <2>1. m.num_layer \in Nat
    BY DEF Sensible
  <2>2. W(n) \in SUBSET (0 .. m.num_layer)
    BY WrittenFacts
  <2>3. Written(m, 0) \in W(n)
    OBVIOUS
  <2> HIDE DEF W
  <2>4. W(n) # {}
    BY <2>3
  <2>5. Max(W(n)) \in W(n) /\ \A y \in W(n) : y <= Max(W(n))
    BY <2>1, <2>2, <2>4, GreatestOf
  <2> QED BY <2>2, <2>5
<1>2. \A n : PredictLayers(m, n) = Max(W(n))
  BY DEF PredictLayers
<1>3. \A n \in Nat : \A k \in 0 .. n : Written(m, k) <= PredictLayers(m, n)
  BY <1>1, <1>2
<1>4. \A n \in Nat : \E k \in 0 .. n : Written(m, k) = PredictLayers(m, n)
  BY <1>1, <1>2
<1>5. \A n \in Nat : PredictLayers(m, n) \in 0 .. m.num_layer
  BY <1>1, <1>2
<1> HIDE DEF W
<1>6. PredictLayers(m, l) <= PredictLayers(m, l + 1)
  <2>1. PICK k \in 0 .. l : Written(m, k) = PredictLayers(m, l)
    BY <1>4
  <2>2. k \in 0 .. (l + 1) /\ l + 1 \in Nat
    OBVIOUS
  <2> QED BY <1>3, <2>1, <2>2
<1>7. ASSUME PredictLayers(m, l) # 0
      PROVE  \E k \in Nat : k < l /\ Predicting(m, k) /\ PredictLayers(m, l) = Stop(m, k)
  <2>1. PICK j \in 0 .. l : Written(m, j) = PredictLayers(m, l)
    BY <1>4
  <2>2. PICK k \in Nat : k < j /\ Predicting(m, k) /\ Written(m, j) = Stop(m, k)
    BY <1>7, <2>1, WrittenFacts
  <2>3. k < l
    BY <2>1, <2>2
  <2> QED BY <2>1, <2>2, <2>3
<1>8. ASSUME NEW k \in Nat, k < l, Predicting(m, k) PROVE Stop(m, k) <= PredictLayers(m, l)
  <2>1. k + 1 \in 0 .. l /\ Written(m, k + 1) = Stop(m, k)
    BY <1>8, WrittenFacts
  <2> QED BY <1>3, <2>1
<1>9. PredictLayers(m, 0) = 0
  <2>1. 0 \in Nat /\ ~(\E k \in Nat : k < 0)
    OBVIOUS
  <2>2. Written(m, 0) = 0
    BY <2>1, WrittenFacts
  <2>3. \A k \in 0 .. 0 : Written(m, k) = 0
    BY <2>2
  <2> QED BY <1>4, <2>1, <2>3
<1> QED BY <1>5, <1>6, <1>7, <1>8, <1>9

LEMMA LayersGrow ==
  ASSUME NEW m, Sensible(m), NEW a \in Nat, NEW b \in Nat, a <= b
  PROVE  PredictLayers(m, a) <= PredictLayers(m, b)
<1>1. PredictLayers(m, a) \in Nat /\ PredictLayers(m, b) \in Nat
  BY LayersFacts
<1>2. ASSUME PredictLayers(m, a) # 0 PROVE PredictLayers(m, a) <= PredictLayers(m, b)
  <2>1. PICK k \in Nat : k < a /\ Predicting(m, k) /\ PredictLayers(m, a) = Stop(m, k)
    BY <1>2, LayersFacts
  <2>2. k < b
    BY <2>1
  <2>3. \A i \in Nat : i < b /\ Predicting(m, i) => Stop(m, i) <= PredictLayers(m, b)
    BY LayersFacts
  <2> QED BY <2>1, <2>2, <2>3
<1> QED BY <1>1, <1>2

(* Every layer is reached by a prediction that is asked for before it. *)
Reaches(m) == \A x \in 0 .. (m.num_layer - 1) : x + 1 <= PredictLayers(m, x + 1)

LEMMA WindowsReach == ASSUME NEW m, Sensible(m) PROVE EveryLayerInWindow(m, 0 .. m.num_layer) <=> Reaches(m)
<1>n. m.num_layer \in Nat \ {0}
  BY DEF Sensible
<1>1. ASSUME NEW x \in 0 .. (m.num_layer - 1), NEW l \in 0 .. x, Predicting(m, l), x < l + Window(m, l)
      PROVE  x + 1 <= PredictLayers(m, x + 1)
  <2>1. l \in Nat /\ l < x + 1 /\ x + 1 \in Nat
    OBVIOUS
  <2>2. Window(m, l) \in Nat /\ Stop(m, l) \in Nat /\ x + 1 <= Stop(m, l)
    BY <1>1, <1>n, <2>1, StopFacts
  <2>3. Stop(m, l) <= PredictLayers(m, x + 1) /\ PredictLayers(m, x + 1) \in Nat
    BY <1>1, <2>1, LayersFacts
  <2> QED BY <2>2, <2>3
<1>2. ASSUME NEW x \in 0 .. (m.num_layer - 1), x + 1 <= PredictLayers(m, x + 1)
      PROVE  \E l \in 0 .. x : Predicting(m, l) /\ x < l + Window(m, l)
  <2>1. x + 1 \in Nat /\ PredictLayers(m, x + 1) # 0
    BY <1>2
  <2>2. PICK k \in Nat : k < x + 1 /\ Predicting(m, k) /\ PredictLayers(m, x + 1) = Stop(m, k)
    BY <2>1, LayersFacts
  <2>3. k \in 0 .. x /\ Window(m, k) \in Nat /\ Stop(m, k) <= k + Window(m, k) /\ Stop(m, k) \in Nat
    BY <2>2, <1>n, StopFacts
  <2>4. x < k + Window(m, k)
    <3>1. x \in Nat /\ k \in Nat /\ x + 1 <= Stop(m, k)
      BY <1>2, <2>2
    <3> QED BY <2>3, <3>1
  <2> QED BY <2>2, <2>3, <2>4
<1>3. ASSUME NEW x \in 0 .. (m.num_layer - 1), NEW l \in 0 .. m.num_layer
      PROVE  l <= x <=> l \in 0 .. x
  BY <1>n
<1>4. \A x \in 0 .. (m.num_layer - 1) : 0 .. x \subseteq 0 .. m.num_layer
  BY <1>n
<1>5. EveryLayerInWindow(m, 0 .. m.num_layer) => Reaches(m)
  BY <1>1, <1>3 DEF EveryLayerInWindow, Reaches
<1>6. Reaches(m) => EveryLayerInWindow(m, 0 .. m.num_layer)
  BY <1>2, <1>3, <1>4 DEF EveryLayerInWindow, Reaches
<1> QED BY <1>5, <1>6

(* The ends of the predictions before layer q. *)
Ends(m, q) ==
  {0} \cup {PredictLayers(m, p + 1) :
             p \in {p \in 0 .. (q - 1) : PredictLayers(m, p) < PredictLayers(m, p + 1)}}

LEMMA LastEnd ==
  ASSUME NEW m, Sensible(m), NEW q \in Nat
  PROVE  Max(Ends(m, q)) = PredictLayers(m, q)
<1>1. \A i \in Nat : PredictLayers(m, i) \in Nat
  BY LayersFacts
<1>2. \A p \in 0 .. (q - 1) : PredictLayers(m, p + 1) <= PredictLayers(m, q)
  <2> SUFFICES ASSUME NEW p \in 0 .. (q - 1) PROVE PredictLayers(m, p + 1) <= PredictLayers(m, q)
    OBVIOUS
  <2>1. p + 1 \in Nat /\ p + 1 <= q
    OBVIOUS
  <2> QED BY <2>1, LayersGrow
<1>3. Ends(m, q) \subseteq Int /\ \A y \in Ends(m, q) : y <= PredictLayers(m, q)
  BY <1>1, <1>2 DEF Ends
<1>4. PredictLayers(m, q) \in Ends(m, q)
  <2>1. CASE PredictLayers(m, q) = 0
    BY <2>1 DEF Ends
  <2>2. CASE PredictLayers(m, q) # 0
    <3> DEFINE T == {n \in 0 .. q : PredictLayers(m, n) = PredictLayers(m, q)}
    <3>1. q \in T /\ T \subseteq Nat
      OBVIOUS
    <3>2. PICK n \in T : \A y \in T : n <= y
      BY <3>1, LeastElement
    <3>3. n \in 0 .. q /\ PredictLayers(m, n) = PredictLayers(m, q) /\ n # 0
      BY <2>2, <3>2, LayersFacts
    <3>4. n - 1 \in 0 .. (q - 1) /\ n - 1 \notin T /\ (n - 1) + 1 = n
      BY <3>2, <3>3
    <3>5. PredictLayers(m, n - 1) # PredictLayers(m, q)
      BY <3>4
    <3>6. n - 1 \in Nat
      BY <3>4
    <3>7. PredictLayers(m, n - 1) <= PredictLayers(m, (n - 1) + 1)
      BY <3>6, LayersFacts
    <3>8. PredictLayers(m, n - 1) < PredictLayers(m, (n - 1) + 1)
      BY <1>1, <3>3, <3>4, <3>5, <3>6, <3>7
    <3> QED BY <3>3, <3>4, <3>8 DEF Ends
  <2> QED BY <2>1, <2>2
<1> QED BY <1>3, <1>4, GreatestIs

(* The ranges of the mapping are the steps of PredictLayers, one after the other. *)
LEMMA MappingFacts ==
  ASSUME NEW m, Sensible(m)
  PROVE  /\ \A t \in 0 .. m.num_layer : \A p \in 0 .. (m.num_layer - 1) :
              (IF t = FirstInput(m) THEN 0 ELSE t) = p =>
                \/ Mapping(m)[t] = <<PredictLayers(m, p), PredictLayers(m, p + 1)>>
                \/ t = 0 /\ t # FirstInput(m) /\ Mapping(m)[t] = <<0, 0>>
         /\ m.num_layer # FirstInput(m) => Mapping(m)[m.num_layer] = <<0, 0>>
         /\ FirstInput(m) \in {0, m.num_layer}
<1>1. m.num_layer \in Nat \ {0} /\ FirstInput(m) \in {0, m.num_layer}
  BY DEF Sensible, FirstInput
<1>2. PredictLayers(m, 0) = 0
  BY LayersFacts
<1> QED BY <1>1, <1>2 DEF Mapping

LEMMA OnceReaches == ASSUME NEW m, Sensible(m) PROVE EachLayerOnce(m, 0 .. m.num_layer) <=> Reaches(m)
<1> DEFINE N == m.num_layer
           r == Mapping(m)
           position(t) == IF t = FirstInput(m) THEN 0 ELSE t
           predicts == {t \in 0 .. N : r[t][1] < r[t][2]}
           stops(T) == {0} \cup {r[t][2] : t \in T}
           L(p) == PredictLayers(m, p)
<1>n. N \in Nat \ {0} /\ FirstInput(m) \in {0, N}
  BY MappingFacts DEF Sensible
<1>l. \A p \in Nat : L(p) \in Nat /\ L(p) <= L(p + 1)
  BY LayersFacts
<1>1. ASSUME NEW t \in predicts
      PROVE  /\ position(t) \in 0 .. (N - 1) /\ L(position(t)) < L(position(t) + 1)
             /\ r[t][1] = L(position(t)) /\ r[t][2] = L(position(t) + 1)
  <2>1. t \in 0 .. N /\ r[t][1] < r[t][2]
    OBVIOUS
  <2>2. position(t) \in 0 .. (N - 1)
    <3>1. t = N /\ t # FirstInput(m) => r[t] = <<0, 0>>
      BY MappingFacts
    <3> QED BY <1>n, <2>1, <3>1
  <2>3. r[t] = <<L(position(t)), L(position(t) + 1)>> \/ r[t] = <<0, 0>>
    BY <2>1, <2>2, MappingFacts
  <2> QED BY <2>1, <2>2, <2>3
<1>2. ASSUME NEW p \in 0 .. (N - 1), L(p) < L(p + 1)
      PROVE  \E t \in predicts : position(t) = p
  <2>1. CASE p = 0
    <3>1. FirstInput(m) \in 0 .. N /\ position(FirstInput(m)) = 0
      BY <1>n
    <3>2. r[FirstInput(m)] = <<L(0), L(0 + 1)>>
      BY <1>n, <3>1, MappingFacts
    <3> QED BY <1>2, <2>1, <3>1, <3>2
  <2>2. CASE p # 0
    <3>1. p \in 0 .. N /\ position(p) = p
      BY <1>n, <2>2
    <3>2. r[p] = <<L(p), L(p + 1)>>
      BY <2>2, <3>1, MappingFacts
    <3> QED BY <1>2, <3>1, <3>2
  <2> QED BY <2>1, <2>2
<1>3. ASSUME NEW q \in Nat, q <= N
      PROVE  stops({u \in predicts : position(u) < q}) = Ends(m, q)
  <2>1. ASSUME NEW u \in predicts, position(u) < q PROVE r[u][2] \in Ends(m, q)
    <3>1. position(u) \in 0 .. (q - 1)
      BY <1>1, <1>3, <1>n, <2>1
    <3> QED BY <1>1, <3>1 DEF Ends
  <2>2. ASSUME NEW p \in 0 .. (q - 1), L(p) < L(p + 1)
        PROVE  L(p + 1) \in stops({u \in predicts : position(u) < q})
    <3>1. p \in 0 .. (N - 1) /\ p < q
      BY <1>3, <1>n
    <3>2. PICK t \in predicts : position(t) = p
      BY <1>2, <2>2, <3>1
    <3>3. r[t][2] = L(p + 1)
      BY <1>1, <3>2
    <3> QED BY <3>1, <3>2, <3>3
  <2>3. Ends(m, q) \subseteq stops({u \in predicts : position(u) < q})
    BY <2>2 DEF Ends
  <2>4. stops({u \in predicts : position(u) < q}) \subseteq Ends(m, q)
    BY <2>1 DEF Ends
  <2> QED BY <2>3, <2>4
<1>4. ASSUME NEW q \in Nat, q <= N
      PROVE  Max(stops({u \in predicts : position(u) < q})) = L(q)
  BY <1>3, <1>4, LastEnd
<1>5. {u \in predicts : position(u) < N} = predicts
  BY <1>1, <1>n
<1>6. Max(stops(predicts)) = L(N)
  BY <1>4, <1>5, <1>n
<1> HIDE DEF N, r, position, predicts, stops, L
<1>7. EachLayerOnce(m, 0 .. m.num_layer) <=>
        /\ \A t \in predicts : /\ position(t) <= r[t][1]
                               /\ r[t][1] = Max(stops({u \in predicts : position(u) < position(t)}))
        /\ Max(stops(predicts)) = N
  BY DEF EachLayerOnce, N, r, position, predicts, stops
<1>8. \A t \in predicts : r[t][1] = Max(stops({u \in predicts : position(u) < position(t)}))
  <2> SUFFICES ASSUME NEW t \in predicts
               PROVE  r[t][1] = Max(stops({u \in predicts : position(u) < position(t)}))
    OBVIOUS
  <2>1. position(t) \in Nat /\ position(t) <= N /\ r[t][1] = L(position(t))
    BY <1>1, <1>n
  <2> QED BY <1>4, <2>1
<1>9. ASSUME Reaches(m) PROVE EachLayerOnce(m, 0 .. m.num_layer)
  <2>1. \A x \in 0 .. (N - 1) : x + 1 <= L(x + 1)
    BY <1>9 DEF Reaches, N, L
  <2>2. L(N) = N
    <3>1. N - 1 \in 0 .. (N - 1) /\ (N - 1) + 1 = N
      BY <1>n
    <3>2. N <= L(N)
      BY <2>1, <3>1
    <3>3. L(N) \in 0 .. N
      BY <1>n, LayersFacts DEF L, N
    <3> QED BY <1>n, <3>2, <3>3
  <2>3. ASSUME NEW t \in predicts PROVE position(t) <= r[t][1]
    <3>1. position(t) \in 0 .. (N - 1) /\ r[t][1] = L(position(t)) /\ L(position(t)) \in Nat
      BY <1>1, <1>l, <1>n
    <3>2. CASE position(t) # 0
      <4>1. position(t) - 1 \in 0 .. (N - 1) /\ (position(t) - 1) + 1 = position(t)
        BY <1>n, <3>1, <3>2
      <4> QED BY <2>1, <3>1, <4>1
    <3> QED BY <3>1, <3>2
  <2> QED BY <1>6, <1>7, <1>8, <2>2, <2>3
<1>10. ASSUME EachLayerOnce(m, 0 .. m.num_layer) PROVE Reaches(m)
  <2> SUFFICES ASSUME NEW x \in 0 .. (N - 1), L(x + 1) <= x PROVE FALSE
    BY <1>l, <1>n DEF Reaches, N, L
  <2>1. L(N) = N
    BY <1>6, <1>7, <1>10
  <2> DEFINE T == {i \in Nat : x + 1 <= i /\ i <= N /\ L(i) # L(x + 1)}
  <2>2. N \in T /\ T \subseteq Nat
    BY <1>n, <2>1
  <2>3. PICK i \in T : \A y \in T : i <= y
    BY <2>2, LeastElement
  <2>4. /\ i \in Nat /\ x + 1 <= i /\ i <= N /\ L(i) # L(x + 1) /\ i # x + 1
    BY <2>3
  <2>5. i - 1 \in 0 .. (N - 1) /\ x + 1 <= i - 1 /\ (i - 1) + 1 = i /\ i - 1 \notin T
    BY <1>n, <2>3, <2>4
  <2>6. L(i - 1) = L(x + 1)
    <3>1. i - 1 \in Nat /\ i - 1 <= N /\ x + 1 <= i - 1 /\ i - 1 \notin T
      BY <1>n, <2>5
    <3> QED BY ONLY <3>1 DEF T
  <2>7. L(i - 1) < L((i - 1) + 1)
    <3>1. L(i - 1) \in Nat /\ L(i) \in Nat /\ L(i - 1) <= L(i)
      BY <1>l, <2>4, <2>5
    <3>2. L(i - 1) # L(i)
      BY <2>4, <2>6
    <3> HIDE DEF L
    <3> QED BY <2>5, <3>1, <3>2
  <2>8. PICK t \in predicts : position(t) = i - 1
    BY <1>2, <2>5, <2>7
  <2>9. i - 1 <= L(i - 1)
    BY <1>1, <1>7, <1>10, <2>8
  <2> QED BY <1>l, <2>4, <2>5, <2>6, <2>9
<1> QED BY <1>9, <1>10

(* With one job, for layer 0, both come down to a first window as long as the model. *)
LEMMA OneJobReaches ==
  ASSUME NEW m, Sensible(m), ~m.replace_first
  PROVE  /\ EachLayerOnce(m, {0}) <=> FirstWindow(m) >= m.num_layer
         /\ EveryLayerInWindow(m, {0}) <=> FirstWindow(m) >= m.num_layer
<1> DEFINE N == m.num_layer
           F == FirstWindow(m)
           E == Stop(m, 0)
<1>1. N \in Nat \ {0} /\ m.interval \in Nat \ {0} /\ FirstInput(m) = 0
  BY DEF Sensible, FirstInput
<1>2. Window(m, 0) = F /\ F \in Nat /\ Predicting(m, 0)
  <2>1. 0 % m.interval = 0 /\ 0 \in 0 .. (N - 1)
    BY <1>1
  <2> QED BY <2>1, StopFacts DEF Window, Predicting
<1>3. E = (IF F <= N THEN F ELSE N) /\ E \in Nat
  BY <1>1, <1>2, StopFacts
<1>4. PredictLayers(m, 1) = E
  <2>1. /\ PredictLayers(m, 1) \in 0 .. N
        /\ PredictLayers(m, 1) # 0 => \E k \in Nat : k < 1 /\ PredictLayers(m, 1) = Stop(m, k)
        /\ \A k \in Nat : k < 1 /\ Predicting(m, k) => Stop(m, k) <= PredictLayers(m, 1)
    BY LayersFacts
  <2>2. E <= PredictLayers(m, 1)
    BY <1>2, <2>1
  <2>3. \A k \in Nat : k < 1 => k = 0
    OBVIOUS
  <2> QED BY <1>3, <2>1, <2>2, <2>3
<1>5. Mapping(m)[0] = <<0, E>>
  BY <1>1, <1>4 DEF Mapping
<1> HIDE DEF E, F, N
<1>6. EachLayerOnce(m, {0}) <=> E = N
  <2> DEFINE r == Mapping(m)
             position(t) == IF t = FirstInput(m) THEN 0 ELSE t
             predicts == {t \in {0} : r[t][1] < r[t][2]}
             stops(T) == {0} \cup {r[t][2] : t \in T}
  <2>1. position(0) = 0 /\ r[0][1] = 0 /\ r[0][2] = E
    BY <1>1, <1>5
  <2>2. predicts = IF 0 < E THEN {0} ELSE {}
    BY <2>1
  <2>3. {u \in predicts : position(u) < position(0)} = {}
    BY <2>1, <2>2
  <2>4. Max(stops({})) = 0
    <3>1. stops({}) = {0}
      OBVIOUS
    <3> QED BY <3>1, GreatestIs
  <2>5. Max(stops(predicts)) = E
    <3>1. stops(predicts) = {0, E}
      BY <1>3, <2>1, <2>2
    <3>2. {0, E} \in SUBSET Int /\ E \in {0, E} /\ \A y \in {0, E} : y <= E
      BY <1>3
    <3>3. Max({0, E}) = E
      BY <3>2, GreatestIs
    <3> QED BY <3>1, <3>3
  <2>6. \A t \in predicts :
          /\ position(t) <= r[t][1]
          /\ r[t][1] = Max(stops({u \in predicts : position(u) < position(t)}))
    <3>1. \A t \in predicts : t = 0
      OBVIOUS
    <3> HIDE DEF stops, predicts, position, r
    <3> QED BY <2>1, <2>3, <2>4, <3>1
  <2> HIDE DEF stops, predicts, position, r
  <2>7. EachLayerOnce(m, {0}) <=>
          /\ \A t \in predicts : /\ position(t) <= r[t][1]
                                 /\ r[t][1] = Max(stops({u \in predicts : position(u) < position(t)}))
          /\ Max(stops(predicts)) = N
    BY DEF EachLayerOnce, N, r, position, predicts, stops
  <2> QED BY <2>5, <2>6, <2>7
<1>7. EveryLayerInWindow(m, {0}) <=> \A x \in 0 .. (N - 1) : x < F
  <2>1. \A x \in 0 .. (N - 1) : 0 <= x /\ (x < 0 + F <=> x < F)
    BY <1>1, <1>2
  <2> QED BY <1>2, <2>1 DEF EveryLayerInWindow, N
<1>8. (\A x \in 0 .. (N - 1) : x < F) <=> F >= N
  <2>1. N - 1 \in 0 .. (N - 1)
    BY <1>1
  <2> QED BY <1>1, <1>2, <2>1
<1> QED BY <1>1, <1>2, <1>3, <1>6, <1>7, <1>8 DEF N, F

SpecPredictors == InitPredictors /\ [][NextPredictors]_predictorVars

LEMMA OptionsSensible ==
  ASSUME NEW o \in Options
  PROVE  /\ Sensible(Configured(o))
         /\ Configured(o).num_layer = o.num_layer /\ Configured(o).interval = o.interval
         /\ Configured(o).window = o.window /\ Configured(o).replace_first = o.replace_first
         /\ Configured(o).input_mode = o.input_mode /\ Configured(o).sep = o.sep
         /\ o.first_window = -1 => Configured(o).first_window = IF o.deepseek THEN o.window ELSE 1
         /\ o.distance = -1 => Configured(o).distance = o.num_layer - 1
<1>1. MaxLayer \in Nat \ {0} /\ MaxWindow \in Nat \ {0}
  BY PredictorAssumption
<1> QED BY <1>1 DEF Options, Configured, Sensible, DefaultDistance

MetaKnown == options \in Options /\ meta = Configured(options)

LEMMA MetaStays == SpecPredictors => []MetaKnown
<1>1. InitPredictors => MetaKnown
  BY DEF InitPredictors, MetaKnown
<1>2. MetaKnown /\ [NextPredictors]_predictorVars => MetaKnown'
  BY DEF MetaKnown, NextPredictors, Load, PredictOneJob, SliceOutput, Post, predictorVars
<1> QED BY <1>1, <1>2, PTL DEF SpecPredictors

(* The modes with a job for the logits of every layer, and those with the job of layer 0. *)
LEMMA JobsKnown ==
  ASSUME MetaKnown
  PROVE  /\ Sensible(meta) /\ meta.input_mode = options.input_mode
         /\ meta.input_mode \in LogitsModes => JobLayers(meta) = 0 .. meta.num_layer
         /\ meta.input_mode \notin LogitsModes => JobLayers(meta) = {0} /\ ~meta.replace_first
<1>1. Sensible(meta) /\ meta.input_mode = options.input_mode /\ meta.replace_first = options.replace_first
  BY OptionsSensible DEF MetaKnown
<1>2. options.replace_first \in BOOLEAN /\ (options.replace_first => options.input_mode \in LogitsModes)
  BY DEF MetaKnown, Options, LogitsModes
<1> QED BY <1>1, <1>2 DEF JobLayers

(* The jobs of an iteration, those that are added in its input mode, predict each of its       *)
(* layers once and in order exactly when every layer is in the window of one of them:           *)
(* build_predict_layer_mapping overlaps nothing and, unless the options leave a gap, forgets    *)
(* nothing.                                                                                      *)
THEOREM LayersPredictedOnce == SpecPredictors => []PredictedOnce
<1>1. ASSUME MetaKnown
      PROVE  EachLayerOnce(meta, JobLayers(meta)) <=> EveryLayerInWindow(meta, JobLayers(meta))
  <2>1. CASE meta.input_mode \in LogitsModes
    BY <1>1, <2>1, JobsKnown, WindowsReach, OnceReaches
  <2>2. CASE meta.input_mode \notin LogitsModes
    BY <1>1, <2>2, JobsKnown, OneJobReaches
  <2> QED BY <2>1, <2>2
<1>2. MetaKnown => PredictedOnce
  BY <1>1 DEF PredictedOnce
<1> QED BY <1>2, MetaStays, PTL

(* The hypothesis of the proofs about the prefetcher's jobs, OncePerIteration, holds of the    *)
(* mapping of every configuration whose windows leave no layer out, in the modes with a job    *)
(* for the logits of every layer.                                                              *)
THEOREM MappingCovers ==
  ASSUME NEW m, Sensible(m), EveryLayerInWindow(m, 0 .. m.num_layer)
  PROVE  OnceInOrder(Mapping(m), m.num_layer)
<1> DEFINE N == m.num_layer
           L(p) == PredictLayers(m, p)
           r == Mapping(m)
           upto == [t \in 0 .. N |-> IF t < N THEN L(t + 1) ELSE IF FirstInput(m) = N THEN L(1) ELSE 0]
<1>1. N \in Nat \ {0} /\ FirstInput(m) \in {0, N} /\ L(0) = 0
  BY MappingFacts, LayersFacts DEF Sensible
<1>2. \A p \in Nat : L(p) \in 0 .. N /\ L(p) <= L(p + 1)
  BY LayersFacts
<1>3. L(N) = N
  <2>1. N - 1 \in 0 .. (N - 1) /\ (N - 1) + 1 = N
    BY <1>1
  <2>2. N <= L(N)
    BY <2>1, WindowsReach DEF Reaches
  <2>3. L(N) \in 0 .. N
    BY <1>1, <1>2
  <2> HIDE DEF N, L
  <2> QED BY <1>1, <2>2, <2>3
<1>4. \A t \in 0 .. N :
        r[t] = IF t = FirstInput(m) THEN <<0, L(1)>> ELSE IF t \in {0, N} THEN <<0, 0>>
               ELSE <<L(t), L(t + 1)>>
  BY DEF Mapping
<1> HIDE DEF L, r
<1>5. upto \in [0 .. N -> 0 .. N]
  <2>1. ASSUME NEW t \in 0 .. N
        PROVE  (IF t < N THEN L(t + 1) ELSE IF FirstInput(m) = N THEN L(1) ELSE 0) \in 0 .. N
    <3>1. t + 1 \in Nat /\ 1 \in Nat /\ 0 \in 0 .. N
      BY <1>1
    <3>2. L(t + 1) \in 0 .. N /\ L(1) \in 0 .. N
      BY <1>2, <3>1
    <3> HIDE DEF N
    <3> QED BY <3>1, <3>2
  <2> QED BY <2>1
<1>6. \A t \in 0 .. N : upto[t] = IF t < N THEN L(t + 1) ELSE IF FirstInput(m) = N THEN L(1) ELSE 0
  BY <1>1
<1> HIDE DEF upto
<1>7. ASSUME NEW t \in 0 .. N
      PROVE  IF r[t][1] < r[t][2] THEN r[t][1] = Reached(N, upto, t) /\ r[t][2] = upto[t]
             ELSE upto[t] = Reached(N, upto, t)
  <2>1. CASE t = N
    <3>1. Reached(N, upto, t) = 0 /\ upto[t] = IF FirstInput(m) = N THEN L(1) ELSE 0
      BY <1>6, <2>1 DEF Reached
    <3>2. r[t] = IF FirstInput(m) = N THEN <<0, L(1)>> ELSE <<0, 0>>
      BY <1>1, <1>4, <2>1
    <3>3. L(1) \in Nat
      BY <1>2
    <3> QED BY <3>1, <3>2, <3>3
  <2>2. CASE t = 0
    <3>1. Reached(N, upto, t) = upto[N] /\ upto[t] = L(1)
      BY <1>1, <1>6, <2>2 DEF Reached
    <3>2. upto[N] = IF FirstInput(m) = N THEN L(1) ELSE 0
      BY <1>1, <1>6
    <3>3. r[t] = IF FirstInput(m) = N THEN <<0, 0>> ELSE <<0, L(1)>>
      BY <1>1, <1>4, <2>2
    <3>4. L(1) \in Nat
      BY <1>2
    <3> QED BY <1>1, <3>1, <3>2, <3>3, <3>4
  <2>3. CASE t \in 1 .. (N - 1)
    <3>1. t - 1 \in 0 .. N /\ t - 1 < N /\ (t - 1) + 1 = t /\ t < N /\ t # 0 /\ t # N /\ t \in Nat
      BY <1>1, <2>3
    <3>2. Reached(N, upto, t) = L(t) /\ upto[t] = L(t + 1)
      BY <1>6, <3>1 DEF Reached
    <3>3. r[t] = <<L(t), L(t + 1)>>
      BY <1>1, <1>4, <3>1
    <3>4. L(t) \in Nat /\ L(t + 1) \in Nat /\ L(t) <= L(t + 1)
      BY <1>2, <3>1
    <3> QED BY <3>2, <3>3, <3>4
  <2> QED BY <1>1, <2>1, <2>2, <2>3
<1>8. upto[N - 1] = N
  <2>1. N - 1 \in 0 .. N /\ N - 1 < N /\ (N - 1) + 1 = N
    BY <1>1
  <2> QED BY <1>3, <1>6, <2>1
<1>9. Covers(r, N, upto)
  BY <1>7, <1>8 DEF Covers
<1> QED BY <1>5, <1>9 DEF OnceInOrder, r

-----------------------------------------------------------------------------
(* The jobs of the predictors *)

LEMMA DefaultsReach ==
  ASSUME NEW o \in Options, o.first_window = -1, o.distance = -1,
         NEW m, m = Configured(o)
  PROVE  EveryLayerInWindow(m, 0 .. m.num_layer) /\ m.distance >= 1
         <=> /\ o.num_layer > 1
             /\ \/ o.interval = 1
                \/ o.deepseek /\ o.window >= Min({o.interval, o.num_layer})
<1> DEFINE N == o.num_layer
           I == o.interval
           W == o.window
           F == IF o.deepseek THEN W ELSE 1
<1>1. /\ Sensible(m) /\ m.num_layer = N /\ m.interval = I /\ m.window = W
      /\ m.first_window = F /\ m.distance = N - 1
  BY OptionsSensible
<1>2. N \in Nat \ {0} /\ I \in Nat \ {0} /\ W \in Nat \ {0} /\ F \in Nat \ {0}
  BY <1>1 DEF Sensible
<1>3. Min({I, N}) = IF I <= N THEN I ELSE N
  BY <1>2, LeastIs
<1>4. \A l \in Nat : /\ Window(m, l) = IF l = 0 THEN F ELSE W
                     /\ Predicting(m, l) <=> l < N /\ l % I = 0
  BY <1>1, <1>2 DEF Window, FirstWindow, Predicting
<1> HIDE DEF N, I, W, F
<1>5. ASSUME EveryLayerInWindow(m, 0 .. N), N > 1, I # 1 PROVE F > 1 /\ F >= Min({I, N})
  <2>1. \A x \in 0 .. (N - 1) : \E l \in 0 .. x : Predicting(m, l) /\ x < l + Window(m, l)
    <3>1. \A x \in 0 .. (N - 1) :
            \E l \in 0 .. N : l <= x /\ Predicting(m, l) /\ x < l + Window(m, l)
      BY <1>1, <1>5 DEF EveryLayerInWindow
    <3>2. \A x \in 0 .. (N - 1) : \A l \in 0 .. N : l <= x => l \in 0 .. x
      BY <1>2
    <3> QED BY <3>1, <3>2
  <2>2. ASSUME NEW x \in 0 .. (N - 1), x < I PROVE x < F
    <3>1. PICK l \in 0 .. x : Predicting(m, l) /\ x < l + Window(m, l)
      BY <2>1
    <3>2. l \in Nat /\ l < I /\ l % I = 0
      BY <1>2, <1>4, <2>2, <3>1
    <3>3. l = 0
      BY <1>2, <3>2, MultipleBelow
    <3>4. Window(m, 0) = F
      BY <1>4
    <3> QED BY <1>2, <3>1, <3>3, <3>4
  <2>3. 1 \in 0 .. (N - 1) /\ 1 < I
    BY <1>2, <1>5
  <2>4. Min({I, N}) - 1 \in 0 .. (N - 1) /\ Min({I, N}) - 1 < I
    BY <1>2, <1>3
  <2>5. 1 < F /\ Min({I, N}) - 1 < F
    BY <2>2, <2>3, <2>4
  <2> QED BY <1>2, <1>3, <2>5
<1>6. ASSUME I = 1 PROVE EveryLayerInWindow(m, 0 .. N)
  <2>1. ASSUME NEW x \in 0 .. (N - 1) PROVE Predicting(m, x) /\ x < x + Window(m, x) /\ x \in 0 .. x
    <3>1. x \in Nat /\ x < N /\ x % 1 = 0
      BY <1>2
    <3> QED BY <1>2, <1>4, <1>6, <3>1
  <2>2. \A x \in 0 .. (N - 1) : \A l \in 0 .. x : l \in 0 .. N /\ l <= x
    BY <1>2
  <2> QED BY <1>1, <2>1, <2>2 DEF EveryLayerInWindow
<1>7. ASSUME F = W, W >= Min({I, N}) PROVE EveryLayerInWindow(m, 0 .. N)
  <2>1. ASSUME NEW x \in 0 .. (N - 1)
        PROVE  \E l \in 0 .. x : Predicting(m, l) /\ x < l + Window(m, l)
    <3>1. x \in Nat /\ x < N
      BY <1>2
    <3>2. /\ x % I \in 0 .. (I - 1) /\ (x - (x % I)) % I = 0
          /\ x - (x % I) \in 0 .. x
      BY <1>2, <3>1, MultipleBelow
    <3> DEFINE l == x - (x % I)
               r == x % I
    <3>r. r \in 0 .. (I - 1) /\ l = x - r /\ l \in 0 .. x
      BY <3>2
    <3> HIDE DEF l, r
    <3>3. l \in 0 .. x /\ l \in Nat /\ l < N /\ l % I = 0
      <4>1. l % I = 0
        BY <3>2 DEF l
      <4> QED BY <1>2, <3>1, <3>r, <4>1
    <3>4. Predicting(m, l) /\ Window(m, l) = W
      BY <1>4, <1>7, <3>3
    <3>5. x - l < W
      BY <1>2, <1>3, <1>7, <3>1, <3>r
    <3> QED BY <1>2, <3>1, <3>3, <3>4, <3>5
  <2>2. \A x \in 0 .. (N - 1) : \A l \in 0 .. x : l \in 0 .. N /\ l <= x
    BY <1>2
  <2> QED BY <1>1, <2>1, <2>2 DEF EveryLayerInWindow
<1>8. m.distance >= 1 <=> N > 1
  BY <1>1, <1>2
<1>9. /\ o.deepseek => F = W
      /\ ~o.deepseek => F = 1
  BY DEF F
<1> QED BY <1>1, <1>5, <1>6, <1>7, <1>8, <1>9 DEF N, I, W

(* With one job, the defaults give layer 0 the whole model only where it has the full window. *)
LEMMA DefaultsReachOne ==
  ASSUME NEW o \in Options, o.first_window = -1, o.distance = -1,
         NEW m, m = Configured(o)
  PROVE  FirstWindow(m) >= m.num_layer /\ m.distance >= 1
         <=> o.num_layer > 1 /\ o.deepseek /\ o.window >= o.num_layer
<1>1. /\ Sensible(m) /\ m.num_layer = o.num_layer /\ m.window = o.window
      /\ m.first_window = (IF o.deepseek THEN o.window ELSE 1) /\ m.distance = o.num_layer - 1
  BY OptionsSensible
<1>2. o.num_layer \in Nat \ {0} /\ o.window \in Nat \ {0}
  BY <1>1 DEF Sensible
<1>3. FirstWindow(m) = IF o.deepseek THEN o.window ELSE 1
  BY <1>1, <1>2 DEF FirstWindow
<1>4. CASE o.deepseek
  BY <1>1, <1>2, <1>3, <1>4
<1>5. CASE ~o.deepseek
  BY <1>1, <1>2, <1>3, <1>5
<1> QED BY <1>4, <1>5

(* The layers from a on, in order. *)
From(a, n) == [i \in 1 .. n |-> a + i - 1]

LayersFrom == Wanted(job.layer)[1]
LayersTo == Wanted(job.layer)[2]

(* The jobs whose output is numbered from the layer the model begins at. *)
NumberedJob ==
  /\ meta.input_mode # "kNoPredict"
  /\ ~(meta.input_mode = "kFirstMoeAttnInputLogits" /\ job.prompt)

JobKnown ==
  /\ MetaKnown
  /\ job \in [pc : {"load", "predict", "slice", "post", "end", "aborted"},
              layer : JobLayers(meta), prompt : BOOLEAN, idx : Nat]

ModelSlices ==
  /\ meta.sep => model = [start |-> 0, stop |-> meta.num_layer, slice_start |-> LayersFrom, slice_stop |-> LayersTo]
  /\ ~meta.sep /\ meta.input_mode = "kNoPredict" =>
       model = [start |-> 0, stop |-> meta.num_layer, slice_start |-> 0, slice_stop |-> meta.num_layer]
  /\ ~meta.sep /\ meta.input_mode # "kNoPredict" =>
       \E lo, hi \in 0 .. meta.num_layer :
         /\ lo <= hi
         /\ \/ LayersFrom = LayersTo /\ model = [start |-> lo, stop |-> hi, slice_start |-> 0, slice_stop |-> 0]
            \/ /\ LayersFrom < LayersTo /\ lo <= LayersFrom /\ LayersTo <= hi
               /\ model = [start |-> lo, stop |-> hi,
                           slice_start |-> LayersFrom - lo, slice_stop |-> LayersTo - lo]

PostedSoFar ==
  /\ meta.sep => job.idx < LayersTo - LayersFrom /\ posted = From(LayersFrom, job.idx)
  /\ ~meta.sep => job.idx = 0 /\ posted = << >>

JobInv ==
  /\ JobKnown
  /\ job.pc = "load" => job.idx = 0 /\ posted = << >>
  /\ job.pc \in {"predict", "slice", "post"} => ModelSlices /\ PostedSoFar
  /\ job.pc = "slice" => output = IF meta.sep THEN PredictedOneJob ELSE Predicted
  /\ job.pc = "post" =>
       IF meta.sep THEN output = [start |-> LayersFrom + job.idx, rows |-> 1]
       ELSE /\ NumberedJob /\ output.rows = LayersTo - LayersFrom
            /\ LayersFrom < LayersTo => output.start = LayersFrom
  /\ job.pc = "end" => NumberedJob /\ posted = From(LayersFrom, LayersTo - LayersFrom)
  /\ job.pc = "aborted" => ~NumberedJob

LEMMA JobRange ==
  ASSUME JobKnown
  PROVE  /\ Sensible(meta) /\ meta.num_layer \in Nat \ {0}
         /\ LayersFrom \in Nat /\ LayersTo \in Nat /\ LayersFrom <= LayersTo /\ LayersTo <= meta.num_layer
         /\ job.layer \in 0 .. meta.num_layer
         /\ meta.sep => meta.input_mode = "kMoeLayerLogits"
         /\ meta.input_mode = "kFirstMoeAttnInputLogits" => ~meta.replace_first /\ job.layer = 0
<1>1. /\ Sensible(meta) /\ meta.replace_first = options.replace_first
      /\ meta.input_mode = options.input_mode /\ meta.sep = options.sep
  BY OptionsSensible DEF JobKnown, MetaKnown
<1>2. meta.num_layer \in Nat \ {0}
  BY <1>1 DEF Sensible
<1>3. job.layer \in JobLayers(meta)
  BY DEF JobKnown
<1>4. job.layer \in 0 .. meta.num_layer
  BY <1>2, <1>3 DEF JobLayers
<1>5. (options.replace_first \/ options.sep) => options.input_mode = "kMoeLayerLogits"
  BY DEF JobKnown, MetaKnown, Options
<1>6. meta.input_mode = "kFirstMoeAttnInputLogits" => ~meta.replace_first /\ job.layer = 0
  <2>1. "kFirstMoeAttnInputLogits" \notin LogitsModes
    BY DEF LogitsModes
  <2> QED BY <1>1, <1>3, <1>5, <2>1 DEF JobLayers
<1>7. \A p \in Nat : PredictLayers(meta, p) \in 0 .. meta.num_layer
                     /\ PredictLayers(meta, p) <= PredictLayers(meta, p + 1)
  BY <1>1, LayersFacts
<1>8. LayersFrom \in Nat /\ LayersTo \in Nat /\ LayersFrom <= LayersTo /\ LayersTo <= meta.num_layer
  <2> DEFINE l == job.layer
             p == IF l = FirstInput(meta) THEN 0 ELSE l
  <2>1. \/ Mapping(meta)[l] = <<0, 0>>
        \/ p \in Nat /\ Mapping(meta)[l] = <<PredictLayers(meta, p), PredictLayers(meta, p + 1)>>
    <3>1. CASE p \in 0 .. (meta.num_layer - 1)
      <4>1. \/ Mapping(meta)[l] = <<PredictLayers(meta, p), PredictLayers(meta, p + 1)>>
            \/ Mapping(meta)[l] = <<0, 0>>
        BY <1>1, <1>4, <3>1, MappingFacts
      <4> QED BY <3>1, <4>1
    <3>2. CASE p \notin 0 .. (meta.num_layer - 1)
      <4>1. l = meta.num_layer /\ l # FirstInput(meta)
        BY <1>2, <1>4, <3>2
      <4> QED BY <1>1, <4>1, MappingFacts
    <3> QED BY <3>1, <3>2
  <2>2. CASE Mapping(meta)[l] = <<0, 0>>
    BY <1>2, <2>2 DEF LayersFrom, LayersTo, Wanted
  <2>3. CASE p \in Nat /\ Mapping(meta)[l] = <<PredictLayers(meta, p), PredictLayers(meta, p + 1)>>
    <3>1. LayersFrom = PredictLayers(meta, p) /\ LayersTo = PredictLayers(meta, p + 1)
      BY <2>3 DEF LayersFrom, LayersTo, Wanted
    <3> HIDE DEF p
    <3>2. p + 1 \in Nat
      BY <2>3
    <3> QED BY <1>2, <1>7, <2>3, <3>1, <3>2
  <2> QED BY <2>1, <2>2, <2>3
<1> QED BY <1>1, <1>2, <1>4, <1>5, <1>6, <1>8

LEMMA FromNext ==
  ASSUME NEW a \in Nat, NEW n \in Nat
  PROVE  From(a, n) \o From(a + n, 1) = From(a, n + 1) /\ << >> \o From(a, n) = From(a, n)
<1>1. From(a, n) \in Seq(Int) /\ Len(From(a, n)) = n
  BY DEF From
<1>2. From(a + n, 1) \in Seq(Int) /\ Len(From(a + n, 1)) = 1
  BY DEF From
<1>3. From(a, n + 1) \in Seq(Int) /\ Len(From(a, n + 1)) = n + 1
  BY DEF From
<1> QED BY <1>1, <1>2, <1>3 DEF From

LEMMA LoadJob == ASSUME JobInv, Load PROVE JobInv'
<1>k. JobKnown
  BY DEF JobInv
<1>s. /\ options' = options /\ meta' = meta /\ posted' = posted /\ output' = output
      /\ job.pc = "load" /\ job.idx = 0 /\ posted = << >>
      /\ job' = [job EXCEPT !.pc =
                   IF meta.input_mode \in LogitsModes /\ model'.slice_start = model'.slice_stop
                     THEN "end" ELSE "predict"]
  BY DEF JobInv, Load
<1>1. JobKnown'
  BY <1>k, <1>s DEF JobKnown, MetaKnown
<1>2. /\ job'.layer = job.layer /\ job'.prompt = job.prompt /\ job'.idx = 0
      /\ job'.pc = IF meta.input_mode \in LogitsModes /\ model'.slice_start = model'.slice_stop
                     THEN "end" ELSE "predict"
  BY <1>k, <1>s DEF JobKnown
<1>3. LayersFrom' = LayersFrom /\ LayersTo' = LayersTo /\ (NumberedJob' <=> NumberedJob)
  BY <1>2, <1>s DEF LayersFrom, LayersTo, Wanted, NumberedJob
<1>r. LayersFrom \in Nat /\ LayersTo \in Nat /\ LayersFrom <= LayersTo /\ LayersTo <= meta.num_layer /\ meta.num_layer \in Nat
  BY <1>k, JobRange
<1>4. ModelSlices'
  <2>1. LoadLegacy \/ LoadNothing \/ LoadSep
    BY DEF Load
  <2>2. CASE LoadLegacy
    <3>1. ~meta.sep /\ meta.input_mode # "kNoPredict"
      BY <2>2 DEF LoadLegacy
    <3>2. PICK lo, hi \in 0 .. meta.num_layer :
            /\ lo <= hi
            /\ IF LayersFrom = LayersTo
                 THEN model' = [NoModel EXCEPT !.start = lo, !.stop = hi]
                 ELSE lo <= LayersFrom /\ hi >= LayersTo /\ model' = Sliced(lo, hi)
      BY <2>2 DEF LoadLegacy, LayersFrom, LayersTo
    <3>3. CASE LayersFrom = LayersTo
      <4>1. model' = [start |-> lo, stop |-> hi, slice_start |-> 0, slice_stop |-> 0]
        BY <3>2, <3>3 DEF NoModel
      <4> QED BY <1>3, <1>s, <3>1, <3>2, <3>3, <4>1 DEF ModelSlices
    <3>4. CASE LayersFrom # LayersTo
      <4>1. /\ LayersFrom < LayersTo /\ lo <= LayersFrom /\ LayersTo <= hi
            /\ model' = [start |-> lo, stop |-> hi,
                         slice_start |-> LayersFrom - lo, slice_stop |-> LayersTo - lo]
        BY <1>r, <3>2, <3>4 DEF Sliced, LayersFrom, LayersTo
      <4> QED BY <1>3, <1>s, <3>1, <3>2, <4>1 DEF ModelSlices
    <3> QED BY <3>3, <3>4
  <2>3. CASE LoadNothing
    BY <1>s, <2>3 DEF LoadNothing, ModelSlices
  <2>4. CASE LoadSep
    <3>1. model' = [start |-> 0, stop |-> meta.num_layer, slice_start |-> LayersFrom, slice_stop |-> LayersTo]
      BY <1>r, <2>4 DEF LoadSep, Sliced, LayersFrom, LayersTo
    <3> QED BY <1>3, <1>s, <2>4, <3>1 DEF ModelSlices, LoadSep
  <2> QED BY <2>1, <2>2, <2>3, <2>4
<1>5. ASSUME meta.input_mode \in LogitsModes
      PROVE  /\ NumberedJob
             /\ model'.slice_start = model'.slice_stop <=> LayersFrom = LayersTo
  <2>1. NumberedJob /\ meta.input_mode # "kNoPredict"
    BY <1>5 DEF NumberedJob, LogitsModes
  <2> QED BY <1>4, <1>3, <1>r, <1>s, <2>1 DEF ModelSlices
<1>6. ASSUME meta.sep PROVE meta.input_mode \in LogitsModes
  BY <1>6, <1>k, JobRange DEF LogitsModes
<1>7. From(LayersFrom, 0) = << >>
  BY DEF From
<1>8. CASE job'.pc = "end"
  <2>1. NumberedJob /\ LayersTo - LayersFrom = 0
    BY <1>2, <1>5, <1>8, <1>r
  <2>2. posted' = From(LayersFrom, LayersTo - LayersFrom)
    BY <1>7, <1>s, <2>1
  <2> QED BY <1>1, <1>3, <1>8, <2>1, <2>2 DEF JobInv
<1>9. CASE job'.pc = "predict"
  <2>1. meta.sep => LayersFrom # LayersTo
    BY <1>2, <1>5, <1>6, <1>9
  <2>2. meta.sep => 0 < LayersTo - LayersFrom
    BY <1>r, <2>1
  <2>3. PostedSoFar'
    BY <1>2, <1>3, <1>7, <1>s, <2>2 DEF PostedSoFar
  <2> QED BY <1>1, <1>4, <1>9, <2>3 DEF JobInv
<1> QED BY <1>2, <1>8, <1>9

LEMMA PredictJob == ASSUME JobInv, PredictOneJob PROVE JobInv'
<1>k. JobKnown
  BY DEF JobInv
<1>s. /\ options' = options /\ meta' = meta /\ posted' = posted /\ model' = model
      /\ job.pc = "predict" /\ job' = [job EXCEPT !.pc = "slice"]
      /\ output' = IF meta.sep THEN PredictedOneJob ELSE Predicted
  BY DEF PredictOneJob
<1>1. JobKnown'
  BY <1>k, <1>s DEF JobKnown, MetaKnown
<1>2. job'.layer = job.layer /\ job'.prompt = job.prompt /\ job'.idx = job.idx /\ job'.pc = "slice"
  BY <1>k, <1>s DEF JobKnown
<1>3. LayersFrom' = LayersFrom /\ LayersTo' = LayersTo
  BY <1>2, <1>s DEF LayersFrom, LayersTo, Wanted
<1>4. ModelSlices' /\ PostedSoFar'
  <2>1. ModelSlices /\ PostedSoFar
    BY <1>s DEF JobInv
  <2> QED BY <1>2, <1>3, <1>s, <2>1 DEF ModelSlices, PostedSoFar
<1>5. PredictedOneJob' = PredictedOneJob /\ Predicted' = Predicted
  BY <1>2, <1>s DEF PredictedOneJob, Predicted, Unnumbered, NoInput
<1> QED BY <1>1, <1>2, <1>4, <1>5, <1>s DEF JobInv

LEMMA SliceJob == ASSUME JobInv, SliceOutput PROVE JobInv'
<1>k. JobKnown
  BY DEF JobInv
<1>s. options' = options /\ meta' = meta /\ posted' = posted /\ model' = model /\ job.pc = "slice"
  BY DEF SliceOutput
<1>p. PICK pc \in {"post", "aborted"} : job' = [job EXCEPT !.pc = pc]
  BY DEF SliceOutput
<1>1. JobKnown'
  BY <1>k, <1>p, <1>s DEF JobKnown, MetaKnown
<1>2. job'.layer = job.layer /\ job'.prompt = job.prompt /\ job'.idx = job.idx /\ job'.pc = pc
  BY <1>k, <1>p DEF JobKnown
<1>3. LayersFrom' = LayersFrom /\ LayersTo' = LayersTo /\ (NumberedJob' <=> NumberedJob)
  BY <1>2, <1>s DEF LayersFrom, LayersTo, Wanted, NumberedJob
<1>i. ModelSlices /\ PostedSoFar /\ output = IF meta.sep THEN PredictedOneJob ELSE Predicted
  BY <1>s DEF JobInv
<1>4. ModelSlices' /\ PostedSoFar'
  BY <1>2, <1>3, <1>i, <1>s DEF ModelSlices, PostedSoFar
<1>r. /\ LayersFrom \in Nat /\ LayersTo \in Nat /\ LayersFrom <= LayersTo /\ LayersTo <= meta.num_layer
      /\ meta.num_layer \in Nat \ {0} /\ job.idx \in Nat
      /\ meta.sep => meta.input_mode = "kMoeLayerLogits"
      /\ meta.input_mode = "kFirstMoeAttnInputLogits" => ~meta.replace_first /\ job.layer = 0
  BY <1>k, JobRange DEF JobKnown
<1>5. CASE meta.sep
  <2>1. output' = output /\ pc = "post"
    BY <1>2, <1>5, <1>k DEF SliceOutput, JobKnown
  <2>2. output = [start |-> LayersFrom + job.idx, rows |-> 1]
    BY <1>5, <1>i DEF PredictedOneJob, ModelSlices
  <2> QED BY <1>1, <1>2, <1>3, <1>4, <1>5, <1>s, <2>1, <2>2 DEF JobInv
<1>6. CASE ~meta.sep
  <2>1. /\ output' = SliceLayer(model.slice_start, model.slice_stop)
        /\ pc = IF output'.start = model.start + model.slice_start THEN "post" ELSE "aborted"
    BY <1>2, <1>6, <1>k DEF SliceOutput, JobKnown
  <2>2. output'.start = output.start + model.slice_start
    BY <2>1 DEF SliceLayer
  <2>3. model.start \in Nat /\ model.slice_start \in Nat
    BY <1>6, <1>i, <1>r DEF ModelSlices
  <2>4. CASE ~NumberedJob
    <3>1. output.start = -1
      BY <1>6, <1>i, <2>4 DEF NumberedJob, Predicted, Unnumbered, NoInput
    <3>2. output'.start # model.start + model.slice_start
      BY <2>2, <2>3, <3>1
    <3> QED BY <1>1, <1>2, <1>3, <2>1, <2>4, <3>2 DEF JobInv
  <2>5. CASE NumberedJob
    <3>1. ~(meta.input_mode = "kFirstMoeAttnInputLogits" /\ NoInput)
      <4> SUFFICES ASSUME meta.input_mode = "kFirstMoeAttnInputLogits" PROVE ~NoInput
        OBVIOUS
      <4>1. ~job.prompt /\ ~meta.replace_first /\ job.layer = 0
        BY <1>r, <2>5 DEF NumberedJob
      <4>2. Sensible(meta)
        BY <1>k, JobRange
      <4>3. (job.layer % meta.num_layer) % meta.interval = 0
        BY <4>1, <4>2, MultipleBelow DEF Sensible
      <4> QED BY <4>1, <4>3 DEF NoInput
    <3>2. output = [start |-> model.start, rows |-> model.stop - model.start]
      BY <1>6, <1>i, <2>5, <3>1 DEF Predicted, Unnumbered, NumberedJob
    <3>3. pc = "post"
      BY <2>1, <2>2, <3>2
    <3>4. PICK lo, hi \in 0 .. meta.num_layer :
            /\ lo <= hi
            /\ \/ LayersFrom = LayersTo /\ model = [start |-> lo, stop |-> hi, slice_start |-> 0, slice_stop |-> 0]
               \/ /\ LayersFrom < LayersTo /\ lo <= LayersFrom /\ LayersTo <= hi
                  /\ model = [start |-> lo, stop |-> hi,
                              slice_start |-> LayersFrom - lo, slice_stop |-> LayersTo - lo]
      BY <1>6, <1>i, <2>5 DEF ModelSlices, NumberedJob
    <3>5. output'.rows = Max({0, Min({model.slice_stop, hi - lo}) - Min({model.slice_start, hi - lo})})
      <4>1. model.stop = hi /\ model.start = lo
        BY <3>4
      <4> QED BY <2>1, <3>2, <4>1 DEF SliceLayer
    <3>6. hi - lo \in Nat
      BY <3>4
    <3>7. CASE LayersFrom = LayersTo
      <4>1. model.slice_start = 0 /\ model.slice_stop = 0
        BY <3>4, <3>7, <1>r
      <4>2. Min({0, hi - lo}) = 0
        BY <3>6, LeastIs
      <4>3. Max({0, 0}) = 0
        BY GreatestIs
      <4>4. output'.rows = LayersTo - LayersFrom
        <5>1. 0 - 0 = 0
          OBVIOUS
        <5>2. output'.rows = 0
          BY <3>5, <4>1, <4>2, <4>3, <5>1
        <5> QED BY <1>r, <3>7, <5>2
      <4> QED BY <1>1, <1>2, <1>3, <1>4, <1>6, <1>r, <1>s, <2>5, <3>3, <3>7, <4>4 DEF JobInv
    <3>8. CASE LayersFrom < LayersTo
      <4>1. /\ lo <= LayersFrom /\ LayersTo <= hi
            /\ model = [start |-> lo, stop |-> hi,
                        slice_start |-> LayersFrom - lo, slice_stop |-> LayersTo - lo]
        BY <1>r, <3>4, <3>8
      <4>2. Min({LayersTo - lo, hi - lo}) = LayersTo - lo /\ Min({LayersFrom - lo, hi - lo}) = LayersFrom - lo
        BY <1>r, <3>4, <3>6, <3>8, <4>1, LeastIs
      <4>3. (LayersTo - lo) - (LayersFrom - lo) = LayersTo - LayersFrom /\ LayersTo - LayersFrom \in Nat
        BY <1>r, <3>4, <3>8
      <4>4. Max({0, LayersTo - LayersFrom}) = LayersTo - LayersFrom
        <5> DEFINE d == LayersTo - LayersFrom
        <5>1. d \in Nat /\ {0, d} \in SUBSET Int /\ \A y \in {0, d} : y <= d
          BY <4>3
        <5> HIDE DEF d
        <5>2. Max({0, d}) = d
          BY <5>1, GreatestIs
        <5> QED BY <5>2 DEF d
      <4>5. output'.rows = LayersTo - LayersFrom
        BY <3>5, <4>1, <4>2, <4>3, <4>4
      <4>6. output'.start = LayersFrom
        BY <1>r, <2>2, <3>2, <4>1
      <4> QED BY <1>1, <1>2, <1>3, <1>4, <1>6, <1>s, <2>5, <3>3, <4>5, <4>6 DEF JobInv
    <3> QED BY <1>r, <3>7, <3>8
  <2> QED BY <2>4, <2>5
<1> QED BY <1>5, <1>6

LEMMA PostJob == ASSUME JobInv, Post PROVE JobInv'
<1>k. JobKnown
  BY DEF JobInv
<1>s. /\ options' = options /\ meta' = meta /\ output' = output /\ model' = model /\ job.pc = "post"
      /\ posted' = posted \o From(output.start, output.rows)
      /\ job' = [job EXCEPT !.idx = job.idx + 1,
                            !.pc = IF job.idx + 1 < NumPredictJobs THEN "predict" ELSE "end"]
  BY DEF Post, From
<1>1. JobKnown'
  <2>1. PICK pc \in {"predict", "end"} : job' = [job EXCEPT !.idx = job.idx + 1, !.pc = pc]
    BY <1>s
  <2>2. job.idx + 1 \in Nat
    BY <1>k DEF JobKnown
  <2> QED BY <1>k, <1>s, <2>1, <2>2 DEF JobKnown, MetaKnown
<1>2. /\ job'.layer = job.layer /\ job'.prompt = job.prompt /\ job'.idx = job.idx + 1
      /\ job'.pc = IF job.idx + 1 < NumPredictJobs THEN "predict" ELSE "end"
  BY <1>k, <1>s DEF JobKnown
<1>3. LayersFrom' = LayersFrom /\ LayersTo' = LayersTo /\ (NumberedJob' <=> NumberedJob)
  BY <1>2, <1>s DEF LayersFrom, LayersTo, Wanted, NumberedJob
<1>i. /\ ModelSlices /\ PostedSoFar
      /\ IF meta.sep THEN output = [start |-> LayersFrom + job.idx, rows |-> 1]
         ELSE /\ NumberedJob /\ output.rows = LayersTo - LayersFrom
              /\ LayersFrom < LayersTo => output.start = LayersFrom
  BY <1>s DEF JobInv
<1>r. /\ LayersFrom \in Nat /\ LayersTo \in Nat /\ LayersFrom <= LayersTo /\ job.idx \in Nat
      /\ meta.sep => meta.input_mode = "kMoeLayerLogits"
  BY <1>k, JobRange DEF JobKnown
<1>4. CASE meta.sep
  <2>1. /\ NumPredictJobs = LayersTo - LayersFrom
        /\ NumberedJob
    BY <1>4, <1>i, <1>r DEF NumPredictJobs, NumOutputLayer, ModelSlices, NumberedJob
  <2>2. posted' = From(LayersFrom, job.idx + 1)
    <3>1. posted' = From(LayersFrom, job.idx) \o From(LayersFrom + job.idx, 1)
      BY <1>4, <1>i, <1>s DEF PostedSoFar
    <3> QED BY <1>r, <3>1, FromNext
  <2>3. CASE job.idx + 1 < LayersTo - LayersFrom
    <3>1. PostedSoFar' /\ ModelSlices' /\ job'.pc = "predict"
      BY <1>2, <1>3, <1>4, <1>i, <1>s, <2>1, <2>2, <2>3 DEF PostedSoFar, ModelSlices
    <3> QED BY <1>1, <3>1 DEF JobInv
  <2>4. CASE ~(job.idx + 1 < LayersTo - LayersFrom)
    <3>1. job.idx + 1 = LayersTo - LayersFrom
      BY <1>4, <1>i, <1>r, <2>4 DEF PostedSoFar
    <3> QED BY <1>1, <1>2, <1>3, <2>1, <2>2, <2>4, <3>1 DEF JobInv
  <2> QED BY <2>3, <2>4
<1>5. CASE ~meta.sep
  <2>1. job'.pc = "end" /\ posted = << >>
    BY <1>2, <1>5, <1>i DEF NumPredictJobs, PostedSoFar
  <2>2. posted' = From(LayersFrom, LayersTo - LayersFrom)
    <3>1. CASE LayersFrom < LayersTo
      <4>1. LayersTo - LayersFrom \in Nat
        BY <1>r, <3>1
      <4> QED BY <1>5, <1>i, <1>r, <1>s, <2>1, <3>1, <4>1, FromNext
    <3>2. CASE LayersFrom = LayersTo
      <4>1. LayersTo - LayersFrom = 0
        BY <1>r, <3>2
      <4>2. \A a : From(a, 0) = << >>
        BY DEF From
      <4> QED BY <1>5, <1>i, <1>s, <2>1, <4>1, <4>2
    <3> QED BY <1>r, <3>1, <3>2
  <2> QED BY <1>1, <1>3, <1>5, <1>i, <2>1, <2>2 DEF JobInv
<1> QED BY <1>4, <1>5

LEMMA JobStays == SpecPredictors => []JobInv
<1>1. InitPredictors => JobInv
  BY DEF InitPredictors, JobInv, JobKnown, MetaKnown
<1>2. JobInv /\ [NextPredictors]_predictorVars => JobInv'
  <2> SUFFICES ASSUME JobInv, [NextPredictors]_predictorVars PROVE JobInv'
    OBVIOUS
  <2>1. CASE UNCHANGED predictorVars
    BY <2>1 DEF predictorVars, JobInv, JobKnown, MetaKnown, ModelSlices, PostedSoFar, LayersFrom, LayersTo, Wanted,
         NumberedJob, Predicted, Unnumbered, PredictedOneJob, NoInput
  <2> QED BY <2>1, LoadJob, PredictJob, SliceJob, PostJob DEF NextPredictors
<1> QED BY <1>1, <1>2, PTL DEF SpecPredictors

(* A predict job posts exactly the layers the mapping gives it, whatever layers the models   *)
(* beside it were trained for; only outputs that begin at layer -1 end in the CHECK.         *)
THEOREM JobsPostTheirLayers == SpecPredictors => []JobPostsItsLayers
<1>1. JobInv => JobPostsItsLayers
  BY DEF JobInv, JobPostsItsLayers, LayersFrom, LayersTo, NumberedJob, From
<1> QED BY <1>1, JobStays, PTL

LEMMA NumberedFirst == ASSUME JobKnown PROVE Unnumbered <=> ~NumberedJob
<1>1. ASSUME meta.input_mode = "kFirstMoeAttnInputLogits" PROVE NoInput <=> job.prompt
  <2>1. meta.input_mode \notin LogitsModes
    BY <1>1 DEF LogitsModes
  <2>2. job.layer = 0 /\ ~meta.replace_first /\ Sensible(meta)
    BY <1>1, JobRange
  <2>3. (0 % meta.num_layer) % meta.interval = 0
    BY <2>2 DEF Sensible
  <2> QED BY <1>1, <2>2, <2>3 DEF NoInput
<1> QED BY <1>1 DEF Unnumbered, NumberedJob

(* With the window of layer 0 and the distance left to the defaults, the hook is served in   *)
(* the configurations and input modes DefaultsServe names, for every number of layers,       *)
(* interval and window.                                                                      *)
THEOREM DefaultsAreServed == SpecPredictors => []DefaultsServe
<1>1. ASSUME JobKnown, options.first_window = -1, options.distance = -1
      PROVE  EachLayerOnce(meta, JobLayers(meta)) /\ meta.distance >= 1 /\ ~Unnumbered
             <=> /\ options.num_layer > 1
                 /\ options.input_mode # "kNoPredict"
                 /\ options.input_mode = "kFirstMoeAttnInputLogits" => ~job.prompt
                 /\ \/ options.input_mode \in LogitsModes /\ options.interval = 1
                    \/ options.deepseek
                       /\ options.window >= IF options.input_mode \in LogitsModes
                                              THEN Min({options.interval, options.num_layer})
                                              ELSE options.num_layer
  <2>1. /\ MetaKnown /\ Sensible(meta) /\ meta.input_mode = options.input_mode
        /\ options \in Options /\ meta = Configured(options)
    BY <1>1, JobsKnown DEF JobKnown, MetaKnown
  <2>2. Unnumbered <=> \/ options.input_mode = "kNoPredict"
                       \/ options.input_mode = "kFirstMoeAttnInputLogits" /\ job.prompt
    BY <1>1, <2>1, NumberedFirst DEF NumberedJob
  <2>3. CASE options.input_mode \in LogitsModes
    <3>1. EachLayerOnce(meta, JobLayers(meta)) <=> EveryLayerInWindow(meta, 0 .. meta.num_layer)
      BY <2>1, <2>3, JobsKnown, WindowsReach, OnceReaches
    <3>2. ~Unnumbered
      BY <2>2, <2>3 DEF LogitsModes
    <3> QED BY <1>1, <2>1, <2>2, <2>3, <3>1, <3>2, DefaultsReach
  <2>4. CASE options.input_mode \notin LogitsModes
    <3>1. EachLayerOnce(meta, JobLayers(meta)) <=> FirstWindow(meta) >= meta.num_layer
      BY <2>1, <2>4, JobsKnown, OneJobReaches
    <3> QED BY <1>1, <2>1, <2>2, <2>4, <3>1, DefaultsReachOne
  <2> QED BY <2>3, <2>4
<1>2. JobInv => DefaultsServe
  BY <1>1 DEF JobInv, DefaultsServe
<1> QED BY <1>2, JobStays, PTL

-----------------------------------------------------------------------------
(* The Python managers of offloaded modules *)

MaybeModule == ModuleKey \cup {NoModule}
JobName == {"forward", "prefetch"}

(* An entry of the second stream: a copy names a buffer, a wait names none. *)
EntryType == [kind : {"copy", "wait"}, buffer : Buffer \cup {"none"}, module : MaybeModule, behind : Nat]

ManagerTypes ==
  /\ manager \in {"lru", "oracle", "prefetch"}
  /\ trace \in Seq(ModuleKey) /\ Len(trace) <= MaxTime
  /\ cur_time \in -1 .. (Len(trace) - 1)
  /\ module \in MaybeModule
  /\ raised \in BOOLEAN /\ followed \in BOOLEAN

StreamTypes ==
  /\ jobs \in [forward : [prefix : MaybeModule, buffer : Buffer],
               prefetch : [prefix : MaybeModule, buffer : Buffer]]
  /\ jobs.forward.buffer # jobs.prefetch.buffer
  /\ copies \in Seq(EntryType)
  /\ \A i \in DOMAIN copies : copies[i].kind = "wait" <=> copies[i].buffer = "none"
  /\ kernels \in Seq([module : ModuleKey, buffer : Buffer])
  /\ content \in [Buffer -> MaybeModule]

(* The oracle knows the next use of the modules that are cached. *)
UsesKnown ==
  \A k \in DOMAIN next_use_time_map : next_use_time_map[k] = NextUse(trace, k, cur_time)

(* A job has at most one copy on its way, which brings what the job is for; when there is     *)
(* none, that is what its buffer holds.                                                       *)
JobsCopied ==
  /\ \A i, j \in DOMAIN copies :
       copies[i].buffer # "none" /\ copies[i].buffer = copies[j].buffer => i = j
  /\ \A i \in DOMAIN copies, x \in JobName :
       copies[i].buffer = jobs[x].buffer => copies[i].module = jobs[x].prefix
  /\ \A x \in JobName : Done(jobs[x]) => content[jobs[x].buffer] = jobs[x].prefix

(* The last wait of the second stream is for all kernels, and the wait for the kernels that   *)
(* read a buffer is in front of the copy into it.                                             *)
CopiesBehind ==
  /\ kernels # << >> =>
       \E j \in DOMAIN copies : copies[j].kind = "wait" /\ copies[j].behind >= Len(kernels)
  /\ \A i \in DOMAIN copies, k \in DOMAIN kernels :
       copies[i].buffer = kernels[k].buffer =>
         \E j \in 1 .. (i - 1) : copies[j].kind = "wait" /\ copies[j].behind >= k

KernelsRead == \A k \in DOMAIN kernels : content[kernels[k].buffer] = kernels[k].module

StreamInv == StreamTypes /\ JobsCopied /\ CopiesBehind /\ KernelsRead

(* Where the host is in a module of NaiveExpertPrefetchMngr. *)
PlaceInv ==
  IF manager = "prefetch"
    THEN /\ ppos \in {"idle", "forward", "arriving", "mispredicted", "recopied"}
         /\ ppos \in {"idle", "forward"} => Done(jobs.forward)
         /\ ppos \in {"arriving", "mispredicted", "recopied"} => Done(jobs.prefetch)
         /\ ppos \in {"forward", "arriving", "recopied"} => jobs.forward.prefix = module
         /\ ppos # "idle" => module \in ModuleKey
    ELSE ppos \in {"idle", "forward"}

(* The cache, and what the module that is run finds there. *)
CacheInv ==
  /\ cached_map \subseteq on_device
  /\ manager # "prefetch" /\ ppos = "forward" => module \in on_device

(* A model that follows its traces: the job that is next holds the module that is next, and   *)
(* at the end of a trace no copy is left.                                                     *)
FollowInv ==
  followed =>
    /\ ~raised
    /\ manager = "prefetch" =>
         /\ ppos \in {"idle", "forward", "arriving"}
         /\ ppos = "arriving" => PredictNext(cur_time) = module
         /\ ppos \in {"idle", "forward"} =>
              /\ cur_time = -1 \/ cur_time + 1 = Len(trace) => Done(jobs.prefetch)
              /\ cur_time # -1 /\ PredictNext(cur_time) # NoModule =>
                   jobs.prefetch.prefix = PredictNext(cur_time)

ManagersInv == ManagerTypes /\ StreamInv /\ UsesKnown /\ PlaceInv /\ CacheInv /\ FollowInv

-----------------------------------------------------------------------------
(* _find_next_use_time: a module used right now, and the others. *)
LEMMA NextUseFacts ==
  ASSUME NEW tr \in Seq(ModuleKey), Len(tr) <= MaxTime, NEW t \in -1 .. (Len(tr) - 1), NEW key
  PROVE  /\ NextUse(tr, key, t) \in Nat /\ NextUse(tr, key, t) >= t + 1
         /\ NextUse(tr, key, t) = t + 1 <=> t + 1 < Len(tr) /\ tr[t + 2] = key
         /\ t + 1 < Len(tr) /\ tr[t + 2] # key => NextUse(tr, key, t + 1) = NextUse(tr, key, t)
<1> DEFINE Later(u) == {i \in (u + 1) .. (Len(tr) - 1) : tr[i + 1] = key}
           S == Later(t) \cup {Inf}
<1>1. /\ Len(tr) \in Nat /\ MaxTime \in Nat \ {0} /\ Inf = MaxTime + 1
      /\ t \in Int /\ -1 <= t /\ t < Inf - 1 /\ (t + 1) + 1 = t + 2
  BY ManagersAssumption DEF Inf
<1>2. S \subseteq Nat /\ \A i \in S : i >= t + 1
  BY <1>1
<1>3. PICK x \in S : \A y \in S : x <= y
  <2>1. S # {}
    OBVIOUS
  <2> QED BY <1>2, <2>1, LeastElement
<1>4. NextUse(tr, key, t) = Min(S)
  BY DEF NextUse
<1>5. Min(S) \in S /\ \A y \in S : Min(S) <= y
  <2>1. x \in S /\ \A y \in S : x =< y
    BY <1>3
  <2> HIDE DEF S
  <2> QED BY <2>1 DEF Min
<1>6. t + 1 < Len(tr) /\ tr[t + 2] = key => Min(S) = t + 1
  <2> SUFFICES ASSUME t + 1 < Len(tr), tr[t + 2] = key PROVE Min(S) = t + 1
    OBVIOUS
  <2>1. t + 1 \in S
    BY <1>1
  <2>2. Min(S) <= t + 1 /\ Min(S) >= t + 1 /\ Min(S) \in Nat
    BY <1>2, <1>5, <2>1
  <2> HIDE DEF S
  <2> QED BY <1>1, <2>2
<1>7. Min(S) = t + 1 => t + 1 < Len(tr) /\ tr[t + 2] = key
  <2> SUFFICES ASSUME t + 1 \in S PROVE t + 1 < Len(tr) /\ tr[t + 2] = key
    BY <1>5
  <2>1. t + 1 \in Later(t)
    BY <1>1
  <2> QED BY <1>1, <2>1
<1>8. t + 1 < Len(tr) /\ tr[t + 2] # key => NextUse(tr, key, t + 1) = Min(S)
  <2> SUFFICES ASSUME t + 1 < Len(tr), tr[t + 2] # key PROVE NextUse(tr, key, t + 1) = Min(S)
    OBVIOUS
  <2>1. Later(t + 1) = Later(t)
    <3>1. ASSUME NEW i \in Later(t) PROVE i \in Later(t + 1)
      <4>1. i # t + 1
        BY <1>1, <3>1
      <4> QED BY <1>1, <3>1, <4>1
    <3>2. ASSUME NEW i \in Later(t + 1) PROVE i \in Later(t)
      BY <1>1, <3>2
    <3> QED BY <3>1, <3>2
  <2>2. NextUse(tr, key, t + 1) = Min(Later(t + 1) \cup {Inf})
    BY DEF NextUse
  <2> QED BY <2>1, <2>2
<1> HIDE DEF S
<1> QED BY <1>2, <1>4, <1>5, <1>6, <1>7, <1>8

(* A module that follows the trace passes the assertions of OraclePolicy._access. *)
LEMMA InStepFacts ==
  ASSUME ManagerTypes, UsesKnown, NEW key
  PROVE  InStep(key) <=> cur_time + 1 < Len(trace) /\ trace[cur_time + 2] = key
<1>1. ASSUME NEW k
      PROVE  /\ NextUse(trace, k, cur_time) \in Nat /\ NextUse(trace, k, cur_time) >= cur_time + 1
             /\ NextUse(trace, k, cur_time) = cur_time + 1 <=>
                  cur_time + 1 < Len(trace) /\ trace[cur_time + 2] = k
  BY NextUseFacts DEF ManagerTypes
<1>2. \A k \in DOMAIN next_use_time_map : next_use_time_map[k] >= cur_time + 1
  BY <1>1 DEF UsesKnown
<1> QED BY <1>1, <1>2 DEF InStep, UsesKnown

(* The access to a module in step keeps what the oracle knows of the known ones. *)
LEMMA AccessKnown ==
  ASSUME ManagerTypes, UsesKnown, NEW key, InStep(key),
         NEW known, DOMAIN known \subseteq DOMAIN next_use_time_map,
         \A k \in DOMAIN known : known[k] = next_use_time_map[k]
  PROVE  /\ cur_time + 1 \in -1 .. (Len(trace) - 1)
         /\ \A k \in DOMAIN WithUse(known, key, cur_time + 1) :
              WithUse(known, key, cur_time + 1)[k] = NextUse(trace, k, cur_time + 1)
<1>1. cur_time + 1 < Len(trace) /\ trace[cur_time + 2] = key
  BY InStepFacts
<1>2. cur_time + 1 \in -1 .. (Len(trace) - 1)
  BY <1>1 DEF ManagerTypes
<1>3. ASSUME NEW k \in DOMAIN known, k # key PROVE known[k] = NextUse(trace, k, cur_time + 1)
  <2>1. NextUse(trace, k, cur_time + 1) = NextUse(trace, k, cur_time)
    BY <1>1, <1>3, NextUseFacts DEF ManagerTypes
  <2> QED BY <2>1 DEF UsesKnown
<1>4. DOMAIN WithUse(known, key, cur_time + 1) = (DOMAIN known) \cup {key}
  BY DEF WithUse
<1>5. ASSUME NEW k \in (DOMAIN known) \cup {key}
      PROVE  WithUse(known, key, cur_time + 1)[k] = NextUse(trace, k, cur_time + 1)
  BY <1>3 DEF WithUse
<1> QED BY <1>2, <1>4, <1>5

-----------------------------------------------------------------------------
(* The two streams.  First what a step of the device does. *)

(* The head of the second stream leaves; the others move up. *)
LEMMA EntryLeaves ==
  ASSUME copies \in Seq(EntryType), copies # << >>, copies' = Tail(copies)
  PROVE  /\ Len(copies) \in Nat \ {0} /\ Head(copies) = copies[1]
         /\ DOMAIN copies = 1 .. Len(copies) /\ DOMAIN copies' = 1 .. (Len(copies) - 1)
         /\ copies' \in Seq(EntryType)
         /\ \A i \in 1 .. (Len(copies) - 1) : copies'[i] = copies[i + 1]
OBVIOUS

LEMMA EntryAdded ==
  ASSUME copies \in Seq(EntryType), NEW c \in EntryType, copies' = Append(copies, c)
  PROVE  /\ Len(copies) \in Nat /\ DOMAIN copies = 1 .. Len(copies)
         /\ DOMAIN copies' = 1 .. (Len(copies) + 1)
         /\ copies' \in Seq(EntryType)
         /\ \A i \in 1 .. Len(copies) : copies'[i] = copies[i]
         /\ copies'[Len(copies) + 1] = c
OBVIOUS

LEMMA StreamKnown ==
  ASSUME StreamInv
  PROVE  /\ Len(copies) \in Nat /\ DOMAIN copies = 1 .. Len(copies)
         /\ \A i \in 1 .. Len(copies) :
              /\ copies[i] \in EntryType /\ copies[i].behind \in Nat /\ copies[i].module \in MaybeModule
              /\ copies[i].kind = "wait" <=> copies[i].buffer = "none"
         /\ Len(kernels) \in Nat /\ DOMAIN kernels = 1 .. Len(kernels)
         /\ kernels # << >> => Len(kernels) >= 1
         /\ \A k \in 1 .. Len(kernels) : kernels[k].buffer \in Buffer /\ kernels[k].module \in ModuleKey
         /\ \A x \in JobName : jobs[x].buffer \in Buffer /\ jobs[x].prefix \in MaybeModule
         /\ "none" \notin Buffer
<1> DEFINE Kernel == [module : ModuleKey, buffer : Buffer]
<1>1. copies \in Seq(EntryType) /\ kernels \in Seq(Kernel)
  BY DEF StreamInv, StreamTypes
<1>2. /\ Len(copies) \in Nat /\ DOMAIN copies = 1 .. Len(copies)
      /\ \A i \in 1 .. Len(copies) : copies[i] \in EntryType
  BY <1>1
<1>3. /\ Len(kernels) \in Nat /\ DOMAIN kernels = 1 .. Len(kernels)
      /\ kernels # << >> => Len(kernels) >= 1
      /\ \A k \in 1 .. Len(kernels) : kernels[k] \in Kernel
  <2> HIDE DEF Kernel
  <2>1. kernels # << >> => Len(kernels) # 0
    BY <1>1
  <2> QED BY <1>1, <2>1
<1>4. \A c \in EntryType : c.behind \in Nat /\ c.module \in MaybeModule
  BY DEF EntryType
<1>5. \A i \in 1 .. Len(copies) : copies[i].kind = "wait" <=> copies[i].buffer = "none"
  BY <1>2 DEF StreamInv, StreamTypes
<1>6. \A x \in JobName : jobs[x].buffer \in Buffer /\ jobs[x].prefix \in MaybeModule
  BY DEF StreamInv, StreamTypes, JobName
<1>7. "none" \notin Buffer
  BY DEF Buffer
<1> QED BY <1>2, <1>3, <1>4, <1>5, <1>6, <1>7

LEMMA StreamFrame ==
  ASSUME StreamInv, UNCHANGED streamVars PROVE StreamInv'
BY DEF StreamInv, StreamTypes, JobsCopied, CopiesBehind, KernelsRead, streamVars, Done

LEMMA KernelStream == ASSUME StreamInv, KernelEnds PROVE StreamInv'
<1> DEFINE n == Len(copies)
           m == Len(kernels)
           Kernel == [module : ModuleKey, buffer : Buffer]
<1>1. /\ copies \in Seq(EntryType) /\ n \in Nat /\ DOMAIN copies = 1 .. n
      /\ \A i \in 1 .. n : copies[i] \in EntryType
  BY DEF StreamInv, StreamTypes
<1>2. /\ m \in Nat \ {0} /\ DOMAIN kernels = 1 .. m /\ DOMAIN kernels' = 1 .. (m - 1)
      /\ kernels' \in Seq(Kernel) /\ Len(kernels') = m - 1
      /\ \A k \in 1 .. (m - 1) : kernels'[k] = kernels[k + 1]
  <2>1. kernels \in Seq(Kernel) /\ kernels # << >> /\ kernels' = Tail(kernels)
    BY DEF KernelEnds, StreamInv, StreamTypes
  <2> QED BY <2>1
<1>3. /\ DOMAIN copies' = 1 .. n /\ copies' \in Seq(EntryType)
      /\ \A i \in 1 .. n : /\ copies'[i].kind = copies[i].kind /\ copies'[i].buffer = copies[i].buffer
                           /\ copies'[i].module = copies[i].module
                           /\ copies'[i].behind \in Nat /\ copies'[i].behind >= copies[i].behind - 1
  <2>1. copies' = [i \in 1 .. n |-> [copies[i] EXCEPT !.behind = Max({0, copies[i].behind - 1})]]
    BY <1>1 DEF KernelEnds
  <2>2. ASSUME NEW i \in 1 .. n
        PROVE  Max({0, copies[i].behind - 1}) \in Nat /\ Max({0, copies[i].behind - 1}) >= copies[i].behind - 1
    <3>1. PICK b \in Nat : b = copies[i].behind
      BY <1>1 DEF EntryType
    <3>2. CASE b = 0
      <4>1. Max({0, b - 1}) = 0
        BY <3>2, GreatestIs
      <4> QED BY <3>1, <3>2, <4>1
    <3>3. CASE b # 0
      <4>1. Max({0, b - 1}) = b - 1
        BY <3>3, GreatestIs, SMTT(30)
      <4> QED BY <3>1, <3>3, <4>1
    <3> QED BY <3>2, <3>3
  <2>3. ASSUME NEW i \in 1 .. n
        PROVE  /\ copies'[i].kind = copies[i].kind /\ copies'[i].buffer = copies[i].buffer
               /\ copies'[i].module = copies[i].module /\ copies'[i] \in EntryType
               /\ copies'[i].behind = Max({0, copies[i].behind - 1})
    <3>1. PICK b : b = Max({0, copies[i].behind - 1})
      OBVIOUS
    <3>2. b \in Nat /\ copies'[i] = [copies[i] EXCEPT !.behind = b]
      BY <2>1, <2>2, <3>1
    <3> QED BY <1>1, <3>1, <3>2 DEF EntryType
  <2>4. copies' \in Seq(EntryType)
    <3>1. copies' \in [1 .. n -> EntryType]
      BY <2>1, <2>3
    <3> QED BY <1>1, <3>1
  <2>5. DOMAIN copies' = 1 .. n
    BY <2>1
  <2>6. ASSUME NEW i \in 1 .. n
        PROVE  copies'[i].behind \in Nat /\ copies'[i].behind >= copies[i].behind - 1
    BY <2>2, <2>3
  <2> QED BY <2>3, <2>4, <2>5, <2>6
<1>4. UNCHANGED <<jobs, content>>
  BY DEF KernelEnds
<1>5. StreamTypes'
  BY <1>1, <1>2, <1>3, <1>4 DEF StreamInv, StreamTypes
<1>6. \A x \in JobName : Done(jobs[x])' <=> Done(jobs[x])
  BY <1>1, <1>3, <1>4 DEF Done
<1>7. JobsCopied'
  BY <1>1, <1>3, <1>4, <1>6 DEF StreamInv, JobsCopied
<1>8. CopiesBehind'
  <2>1. ASSUME kernels' # << >>
        PROVE  \E j \in 1 .. n : copies'[j].kind = "wait" /\ copies'[j].behind >= m - 1
    <3>1. PICK j \in 1 .. n : copies[j].kind = "wait" /\ copies[j].behind >= m
      BY <1>1, <1>2 DEF StreamInv, CopiesBehind
    <3>2. copies[j].behind \in Nat
      BY <1>1 DEF EntryType
    <3> QED BY <1>2, <1>3, <3>1, <3>2
  <2>2. ASSUME NEW i \in 1 .. n, NEW k \in 1 .. (m - 1), copies'[i].buffer = kernels'[k].buffer
        PROVE  \E j \in 1 .. (i - 1) : copies'[j].kind = "wait" /\ copies'[j].behind >= k
    <3>1. k + 1 \in 1 .. m /\ copies[i].buffer = kernels[k + 1].buffer
      BY <1>2, <1>3, <2>2
    <3>2. PICK j \in 1 .. (i - 1) : copies[j].kind = "wait" /\ copies[j].behind >= k + 1
      BY <1>1, <1>2, <3>1 DEF StreamInv, CopiesBehind
    <3>3. j \in 1 .. n /\ copies[j].behind \in Nat
      BY <1>1 DEF EntryType
    <3> QED BY <1>3, <3>2, <3>3, SMTT(30)
  <2> QED BY <1>2, <1>3, <2>1, <2>2, ZenonT(40) DEF CopiesBehind
<1>9. KernelsRead'
  <2>1. \A k \in 1 .. (m - 1) : k + 1 \in 1 .. m
    BY <1>2
  <2>2. \A k \in 1 .. m : content[kernels[k].buffer] = kernels[k].module
    BY <1>2 DEF StreamInv, KernelsRead
  <2>3. \A k \in 1 .. (m - 1) : content[kernels'[k].buffer] = kernels'[k].module
    BY <1>2, <2>1, <2>2
  <2> QED BY <1>2, <1>4, <2>3 DEF KernelsRead
<1> QED BY <1>5, <1>7, <1>8, <1>9 DEF StreamInv

LEMMA WaitStream == ASSUME StreamInv, WaitEnds PROVE StreamInv'
<1> DEFINE n == Len(copies)
           m == Len(kernels)
<1>1. /\ n \in Nat \ {0} /\ DOMAIN copies = 1 .. n /\ DOMAIN copies' = 1 .. (n - 1)
      /\ copies' \in Seq(EntryType)
      /\ \A i \in 1 .. (n - 1) : copies'[i] = copies[i + 1]
      /\ copies[1].kind = "wait" /\ copies[1].behind = 0
  BY EntryLeaves DEF WaitEnds, StreamInv, StreamTypes
<1>2. UNCHANGED <<jobs, content, kernels>>
  BY DEF WaitEnds, StreamUnchanged
<1>3. \A i \in 1 .. (n - 1) : i + 1 \in 1 .. n
  BY <1>1
<1>4. \A i \in 2 .. n : i - 1 \in 1 .. (n - 1) /\ (i - 1) + 1 = i
  BY <1>1
<1>5. /\ m \in Nat /\ DOMAIN kernels = 1 .. m /\ \A k \in 1 .. m : kernels[k].buffer \in Buffer
      /\ kernels # << >> => m >= 1
      /\ \A i \in 1 .. n : copies[i].behind \in Nat
  BY StreamKnown
<1>6. StreamTypes'
  <2>1. \A i \in 1 .. (n - 1) : copies'[i].kind = "wait" <=> copies'[i].buffer = "none"
    BY <1>1, <1>3, StreamKnown
  <2> QED BY <1>1, <1>2, <2>1 DEF StreamInv, StreamTypes
<1>7. copies[1].buffer = "none"
  <2>1. 1 \in 1 .. n
    BY <1>1
  <2> QED BY <1>1, <2>1, StreamKnown
<1>8. ASSUME NEW x \in JobName, Done(jobs[x])' PROVE Done(jobs[x])
  <2>1. jobs[x].buffer # "none"
    BY DEF StreamInv, StreamTypes, JobName, Buffer
  <2>2. ASSUME NEW i \in 1 .. n PROVE copies[i].buffer # jobs[x].buffer
    <3>1. CASE i = 1
      BY <1>7, <2>1, <3>1
    <3>2. CASE i # 1
      <4>1. i - 1 \in 1 .. (n - 1) /\ (i - 1) + 1 = i
        BY <1>1, <3>2
      <4> QED BY <1>1, <1>2, <1>8, <4>1 DEF Done
    <3> QED BY <3>1, <3>2
  <2> QED BY <1>1, <2>2 DEF Done
<1>9. JobsCopied'
  <2>1. \A i, j \in 1 .. (n - 1) : i + 1 = j + 1 => i = j
    OBVIOUS
  <2>2. ASSUME NEW i \in 1 .. (n - 1), NEW j \in 1 .. (n - 1),
               copies'[i].buffer # "none", copies'[i].buffer = copies'[j].buffer
        PROVE  i = j
    <3>1. i + 1 \in DOMAIN copies /\ j + 1 \in DOMAIN copies
      BY <1>1, <1>3
    <3>2. copies[i + 1].buffer # "none" /\ copies[i + 1].buffer = copies[j + 1].buffer
      BY <1>1, <2>2
    <3>3. i + 1 = j + 1
      BY <3>1, <3>2 DEF StreamInv, JobsCopied
    <3> QED BY <2>1, <3>3
  <2>3. ASSUME NEW i \in 1 .. (n - 1), NEW x \in JobName, copies'[i].buffer = jobs[x].buffer
        PROVE  copies'[i].module = jobs[x].prefix
    BY <1>1, <1>3, <2>3 DEF StreamInv, JobsCopied
  <2>4. \A x \in JobName : Done(jobs[x])' => content[jobs[x].buffer] = jobs[x].prefix
    BY <1>8 DEF StreamInv, JobsCopied
  <2> QED BY <1>1, <1>2, <2>2, <2>3, <2>4 DEF JobsCopied
<1>10. CopiesBehind'
  <2>1. ASSUME kernels # << >>
        PROVE  \E j \in 1 .. (n - 1) : copies'[j].kind = "wait" /\ copies'[j].behind >= m
    <3>1. PICK j \in 1 .. n : copies[j].kind = "wait" /\ copies[j].behind >= m
      BY <1>1, <2>1 DEF StreamInv, CopiesBehind
    <3>2. j # 1
      BY <1>1, <1>5, <2>1, <3>1
    <3>3. j - 1 \in 1 .. (n - 1) /\ (j - 1) + 1 = j
      BY <1>1, <3>2
    <3> QED BY <1>1, <3>1, <3>3
  <2>2. ASSUME NEW i \in 1 .. (n - 1), NEW k \in 1 .. m, copies'[i].buffer = kernels[k].buffer
        PROVE  \E j \in 1 .. (i - 1) : copies'[j].kind = "wait" /\ copies'[j].behind >= k
    <3>1. copies[i + 1].buffer = kernels[k].buffer
      BY <1>1, <2>2
    <3>2. PICK j \in 1 .. ((i + 1) - 1) : copies[j].kind = "wait" /\ copies[j].behind >= k
      BY <1>1, <1>3, <1>5, <3>1 DEF StreamInv, CopiesBehind
    <3>3. j # 1
      BY <1>1, <1>5, <3>2
    <3>4. j - 1 \in 1 .. (i - 1) /\ j - 1 \in 1 .. (n - 1) /\ (j - 1) + 1 = j
      BY <1>1, <3>3
    <3> QED BY <1>1, <3>2, <3>4
  <2> QED BY <1>1, <1>2, <1>5, <2>1, <2>2 DEF CopiesBehind
<1>11. KernelsRead'
  BY <1>2 DEF StreamInv, KernelsRead
<1> QED BY <1>6, <1>9, <1>10, <1>11 DEF StreamInv

(* While the first entry of the stream is a copy, no kernel reads its buffer. *)
LEMMA CopyAlone ==
  ASSUME StreamInv, copies # << >>, Head(copies).kind = "copy"
  PROVE  /\ Len(copies) \in Nat \ {0} /\ DOMAIN copies = 1 .. Len(copies) /\ Head(copies) = copies[1]
         /\ copies[1] \in EntryType /\ copies[1].buffer \in Buffer
         /\ \A k \in DOMAIN kernels : kernels[k].buffer # copies[1].buffer
<1>1. /\ Len(copies) \in Nat \ {0} /\ DOMAIN copies = 1 .. Len(copies) /\ Head(copies) = copies[1]
      /\ copies[1] \in EntryType
  BY DEF StreamInv, StreamTypes
<1>2. 1 \in DOMAIN copies
  BY <1>1
<1>3. copies[1].buffer \in Buffer
  BY <1>1, <1>2 DEF StreamInv, StreamTypes, EntryType
<1>4. \A k \in DOMAIN kernels : kernels[k].buffer # copies[1].buffer
  BY <1>2 DEF StreamInv, CopiesBehind
<1> QED BY <1>1, <1>3, <1>4

LEMMA CopyStartStream == ASSUME StreamInv, CopyStarts PROVE StreamInv'
<1>1. UNCHANGED <<jobs, copies, kernels>>
  BY DEF CopyStarts, StreamUnchanged
<1>2. /\ 1 \in DOMAIN copies /\ copies[1].buffer \in Buffer /\ Head(copies) = copies[1]
      /\ \A k \in DOMAIN kernels : kernels[k].buffer # copies[1].buffer
  BY CopyAlone DEF CopyStarts
<1>3. /\ content' \in [Buffer -> MaybeModule]
      /\ \A b \in Buffer : b # copies[1].buffer => content'[b] = content[b]
  BY <1>2 DEF CopyStarts, StreamInv, StreamTypes, MaybeModule
<1>4. StreamTypes'
  BY <1>1, <1>3 DEF StreamInv, StreamTypes
<1>5. \A x \in JobName : Done(jobs[x]) => jobs[x].buffer # copies[1].buffer /\ jobs[x].buffer \in Buffer
  BY <1>2 DEF Done, StreamInv, StreamTypes, JobName
<1>6. JobsCopied'
  BY <1>1, <1>3, <1>5 DEF StreamInv, JobsCopied, Done
<1>7. CopiesBehind'
  BY <1>1 DEF StreamInv, CopiesBehind
<1>8. KernelsRead'
  <2>1. \A k \in DOMAIN kernels : kernels[k].buffer \in Buffer
    BY StreamKnown
  <2> QED BY <1>1, <1>2, <1>3, <2>1 DEF StreamInv, KernelsRead
<1> QED BY <1>4, <1>6, <1>7, <1>8 DEF StreamInv

LEMMA CopyEndStream == ASSUME StreamInv, CopyEnds PROVE StreamInv'
<1> DEFINE n == Len(copies)
           m == Len(kernels)
<1>1. /\ n \in Nat \ {0} /\ DOMAIN copies = 1 .. n /\ DOMAIN copies' = 1 .. (n - 1)
      /\ copies' \in Seq(EntryType)
      /\ \A i \in 1 .. (n - 1) : copies'[i] = copies[i + 1]
  BY EntryLeaves DEF CopyEnds, StreamInv, StreamTypes
<1>2. /\ copies[1] \in EntryType /\ copies[1].buffer \in Buffer /\ copies[1].kind = "copy"
      /\ Head(copies) = copies[1]
      /\ \A k \in DOMAIN kernels : kernels[k].buffer # copies[1].buffer
  BY CopyAlone DEF CopyEnds
<1>3. UNCHANGED <<jobs, kernels>>
  BY DEF CopyEnds, StreamUnchanged
<1>4. /\ content' \in [Buffer -> MaybeModule]
      /\ \A b \in Buffer : content'[b] = IF b = copies[1].buffer THEN copies[1].module ELSE content[b]
  BY <1>2 DEF CopyEnds, StreamInv, StreamTypes, EntryType
<1>5. /\ \A i \in 1 .. (n - 1) : i + 1 \in 1 .. n /\ i + 1 # 1
      /\ 1 \in 1 .. n
      /\ \A i \in 1 .. n : i # 1 => i - 1 \in 1 .. (n - 1) /\ (i - 1) + 1 = i
  BY <1>1
<1>6. StreamTypes'
  <2>1. \A i \in 1 .. (n - 1) : copies'[i].kind = "wait" <=> copies'[i].buffer = "none"
    BY <1>1, <1>5, StreamKnown
  <2> QED BY <1>1, <1>3, <1>4, <2>1 DEF StreamInv, StreamTypes
<1>7. JobsCopied'
  <2>1. \A i, j \in 1 .. (n - 1) : i + 1 = j + 1 => i = j
    OBVIOUS
  <2>2. ASSUME NEW i \in 1 .. (n - 1), NEW j \in 1 .. (n - 1),
               copies'[i].buffer # "none", copies'[i].buffer = copies'[j].buffer
        PROVE  i = j
    <3>1. i + 1 = j + 1
      BY <1>1, <1>5, <2>2 DEF StreamInv, JobsCopied
    <3> QED BY <2>1, <3>1
  <2>3. ASSUME NEW i \in 1 .. (n - 1), NEW x \in JobName, copies'[i].buffer = jobs[x].buffer
        PROVE  copies'[i].module = jobs[x].prefix
    <3>1. i + 1 \in 1 .. n /\ copies[i + 1].buffer = jobs[x].buffer /\ copies'[i] = copies[i + 1]
      BY <1>1, <1>5, <2>3
    <3> QED BY <1>1, <3>1 DEF StreamInv, JobsCopied
  <2>4. ASSUME NEW x \in JobName, Done(jobs[x])' PROVE content'[jobs[x].buffer] = jobs[x].prefix
    <3>1. jobs[x].buffer \in Buffer
      BY StreamKnown
    <3>2. CASE jobs[x].buffer = copies[1].buffer
      <4>1. copies[1].module = jobs[x].prefix
        BY <1>1, <1>5, <3>2 DEF StreamInv, JobsCopied
      <4> QED BY <1>4, <3>1, <3>2, <4>1
    <3>3. CASE jobs[x].buffer # copies[1].buffer
      <4>1. ASSUME NEW i \in 1 .. n PROVE copies[i].buffer # jobs[x].buffer
        <5>1. CASE i = 1
          BY <3>3, <5>1
        <5>2. CASE i # 1
          <6>1. i - 1 \in 1 .. (n - 1) /\ copies'[i - 1] = copies[i]
            BY <1>1, <1>5, <5>2
          <6>2. copies'[i - 1].buffer # jobs[x].buffer
            BY <1>1, <1>3, <2>4, <6>1 DEF Done
          <6> QED BY <6>1, <6>2
        <5> QED BY <5>1, <5>2
      <4>2. Done(jobs[x])
        BY <1>1, <4>1 DEF Done
      <4> QED BY <1>4, <3>1, <3>3, <4>2 DEF StreamInv, JobsCopied
    <3> QED BY <3>2, <3>3
  <2> QED BY <1>1, <1>3, <2>2, <2>3, <2>4 DEF JobsCopied
<1>8. CopiesBehind'
  <2>1. ASSUME kernels # << >>
        PROVE  \E j \in 1 .. (n - 1) : copies'[j].kind = "wait" /\ copies'[j].behind >= m
    <3>1. PICK j \in 1 .. n : copies[j].kind = "wait" /\ copies[j].behind >= m
      BY <1>1, <2>1 DEF StreamInv, CopiesBehind
    <3>2. j # 1
      BY <1>2, <3>1
    <3>3. j - 1 \in 1 .. (n - 1) /\ copies'[j - 1] = copies[j]
      BY <1>1, <1>5, <3>2
    <3> QED BY <3>1, <3>3
  <2>2. ASSUME NEW i \in 1 .. (n - 1), NEW k \in DOMAIN kernels, copies'[i].buffer = kernels[k].buffer
        PROVE  \E j \in 1 .. (i - 1) : copies'[j].kind = "wait" /\ copies'[j].behind >= k
    <3>1. copies[i + 1].buffer = kernels[k].buffer /\ i + 1 \in 1 .. n
      BY <1>1, <1>5, <2>2
    <3>2. PICK j \in 1 .. ((i + 1) - 1) : copies[j].kind = "wait" /\ copies[j].behind >= k
      BY <1>1, <3>1 DEF StreamInv, CopiesBehind
    <3>3. j # 1
      BY <1>2, <3>2
    <3>4. j - 1 \in 1 .. (i - 1) /\ j - 1 \in 1 .. (n - 1) /\ (j - 1) + 1 = j
      BY <1>1, <3>3
    <3> QED BY <1>1, <3>2, <3>4
  <2> QED BY <1>1, <1>3, <2>1, <2>2 DEF CopiesBehind
<1>9. KernelsRead'
  <2>1. \A k \in DOMAIN kernels : kernels[k].buffer \in Buffer
    BY StreamKnown
  <2> QED BY <1>2, <1>3, <1>4, <2>1 DEF StreamInv, KernelsRead
<1> QED BY <1>6, <1>7, <1>8, <1>9 DEF StreamInv

(* What a step of the host does: a job is given a copy, *)
LEMMA LaunchStream ==
  ASSUME StreamInv, NEW x \in JobName, NEW m \in ModuleKey, Done(jobs[x]),
         copies' = Append(copies, CopyTo(jobs[x], m)),
         jobs' = [jobs EXCEPT ![x] = Launched(jobs[x], m)],
         UNCHANGED <<kernels, content>>
  PROVE  /\ StreamInv'
         /\ jobs'[x].prefix = m
         /\ \A y \in JobName : y # x => jobs'[y] = jobs[y] /\ (Done(jobs[y]) => Done(jobs[y])')
<1> DEFINE n == Len(copies)
           c == CopyTo(jobs[x], m)
<1>1. /\ n \in Nat /\ DOMAIN copies = 1 .. n
      /\ \A i \in 1 .. n : copies[i].kind = "wait" <=> copies[i].buffer = "none"
      /\ jobs[x].buffer \in Buffer /\ "none" \notin Buffer
      /\ \A k \in DOMAIN kernels : kernels[k].buffer \in Buffer
  BY StreamKnown
<1>2. /\ c \in EntryType /\ c.kind = "copy" /\ c.buffer = jobs[x].buffer /\ c.module = m
  BY <1>1 DEF CopyTo, EntryType, MaybeModule
<1> HIDE DEF c
<1>3. /\ DOMAIN copies' = 1 .. (n + 1) /\ copies' \in Seq(EntryType)
      /\ \A i \in 1 .. n : copies'[i] = copies[i]
      /\ copies'[n + 1] = c
  <2>1. copies \in Seq(EntryType) /\ copies' = Append(copies, c)
    BY DEF StreamInv, StreamTypes, c
  <2> QED BY <1>2, <2>1, EntryAdded
<1>4. \A i \in 1 .. (n + 1) : i \in 1 .. n \/ i = n + 1
  BY <1>1
<1>5. /\ jobs' \in [forward : [prefix : MaybeModule, buffer : Buffer],
                    prefetch : [prefix : MaybeModule, buffer : Buffer]]
      /\ \A y \in JobName : jobs'[y].buffer = jobs[y].buffer
      /\ \A y \in JobName : y # x => jobs'[y] = jobs[y]
      /\ jobs'[x].prefix = m
  <2>1. PICK j : j = Launched(jobs[x], m)
    OBVIOUS
  <2>2. jobs[x] \in [prefix : MaybeModule, buffer : Buffer]
    BY DEF StreamInv, StreamTypes, JobName
  <2>3. j \in [prefix : MaybeModule, buffer : Buffer] /\ j.prefix = m /\ j.buffer = jobs[x].buffer
    BY <2>1, <2>2 DEF Launched, MaybeModule
  <2> QED BY <2>1, <2>3 DEF StreamInv, StreamTypes, JobName
<1>6. \A y, z \in JobName : jobs[y].buffer = jobs[z].buffer => y = z
  BY DEF StreamInv, StreamTypes, JobName
<1>7. StreamTypes'
  <2>1. \A i \in 1 .. (n + 1) : copies'[i].kind = "wait" <=> copies'[i].buffer = "none"
    BY <1>1, <1>2, <1>3, <1>4
  <2>2. jobs'.forward.buffer # jobs'.prefetch.buffer
    BY <1>5, <1>6 DEF JobName
  <2> QED BY <1>3, <1>5, <2>1, <2>2 DEF StreamInv, StreamTypes
<1>8. ASSUME NEW y \in JobName, y # x PROVE Done(jobs[y]) <=> Done(jobs[y])'
  <2>1. c.buffer # jobs[y].buffer
    BY <1>2, <1>6, <1>8
  <2> QED BY <1>1, <1>3, <1>4, <1>5, <1>8, <2>1 DEF Done
<1>9. \A i \in 1 .. n : copies[i].buffer # c.buffer
  BY <1>1, <1>2 DEF Done
<1>10. JobsCopied'
  <2>1. ASSUME NEW i \in 1 .. (n + 1), NEW j \in 1 .. (n + 1),
               copies'[i].buffer # "none", copies'[i].buffer = copies'[j].buffer
        PROVE  i = j
    <3>1. CASE i \in 1 .. n /\ j \in 1 .. n
      BY <1>1, <1>3, <2>1, <3>1 DEF StreamInv, JobsCopied
    <3>2. CASE i = n + 1 \/ j = n + 1
      BY <1>3, <1>4, <1>9, <2>1, <3>2
    <3> QED BY <1>4, <3>1, <3>2
  <2>2. ASSUME NEW i \in 1 .. (n + 1), NEW y \in JobName, copies'[i].buffer = jobs'[y].buffer
        PROVE  copies'[i].module = jobs'[y].prefix
    <3>1. CASE y = x
      <4>1. i = n + 1
        BY <1>2, <1>3, <1>4, <1>5, <1>9, <2>2, <3>1
      <4> QED BY <1>2, <1>3, <1>5, <3>1, <4>1
    <3>2. CASE y # x
      <4>1. i # n + 1
        BY <1>2, <1>3, <1>5, <1>6, <2>2, <3>2
      <4> QED BY <1>1, <1>3, <1>4, <1>5, <2>2, <3>2, <4>1 DEF StreamInv, JobsCopied
    <3> QED BY <3>1, <3>2
  <2>3. ASSUME NEW y \in JobName, Done(jobs[y])' PROVE content[jobs'[y].buffer] = jobs'[y].prefix
    <3>1. y # x
      <4>1. n + 1 \in 1 .. (n + 1)
        BY <1>1
      <4> QED BY <1>2, <1>3, <1>5, <2>3, <4>1 DEF Done
    <3> QED BY <1>5, <1>8, <2>3, <3>1 DEF StreamInv, JobsCopied
  <2> QED BY <1>3, <2>1, <2>2, <2>3 DEF JobsCopied
<1>11. CopiesBehind'
  <2>1. ASSUME kernels # << >>
        PROVE  \E j \in 1 .. n : copies[j].kind = "wait" /\ copies[j].behind >= Len(kernels)
    BY <1>1, <2>1 DEF StreamInv, CopiesBehind
  <2>2. ASSUME NEW i \in 1 .. (n + 1), NEW k \in DOMAIN kernels, copies'[i].buffer = kernels[k].buffer
        PROVE  \E j \in 1 .. (i - 1) : copies'[j].kind = "wait" /\ copies'[j].behind >= k
    <3>1. CASE i \in 1 .. n
      <4>1. PICK j \in 1 .. (i - 1) : copies[j].kind = "wait" /\ copies[j].behind >= k
        BY <1>1, <1>3, <2>2, <3>1 DEF StreamInv, CopiesBehind
      <4>2. j \in 1 .. n
        BY <1>1, <3>1
      <4> QED BY <1>3, <4>1, <4>2
    <3>2. CASE i = n + 1
      <4>1. /\ kernels # << >> /\ k \in 1 .. Len(kernels) /\ Len(kernels) \in Nat
            /\ \A j \in 1 .. n : copies[j].behind \in Nat
        BY StreamKnown
      <4>2. PICK j \in 1 .. n : copies[j].kind = "wait" /\ copies[j].behind >= Len(kernels)
        BY <2>1, <4>1
      <4>3. copies[j].behind >= k /\ j \in 1 .. (i - 1)
        BY <1>1, <3>2, <4>1, <4>2
      <4> QED BY <1>3, <4>2, <4>3
    <3> QED BY <1>4, <3>1, <3>2
  <2>3. \A j \in 1 .. n : j \in 1 .. (n + 1)
    BY <1>1
  <2> QED BY <1>3, <2>1, <2>2, <2>3 DEF CopiesBehind
<1>12. KernelsRead'
  BY DEF StreamInv, KernelsRead
<1> QED BY <1>5, <1>7, <1>8, <1>10, <1>11, <1>12 DEF StreamInv

(* the jobs change places, *)
LEMMA ExchangeStream ==
  ASSUME StreamInv, jobs' = Exchanged, UNCHANGED <<copies, kernels, content>>
  PROVE  /\ StreamInv'
         /\ jobs'.forward = jobs.prefetch /\ jobs'.prefetch = jobs.forward
         /\ Done(jobs.forward) => Done(jobs.prefetch)'
<1>1. jobs'.forward = jobs.prefetch /\ jobs'.prefetch = jobs.forward
  BY DEF Exchanged
<1>2. StreamTypes'
  BY DEF StreamInv, StreamTypes, Exchanged
<1>3. /\ Done(jobs.forward)' <=> Done(jobs.prefetch)
      /\ Done(jobs.prefetch)' <=> Done(jobs.forward)
  BY <1>1 DEF Done
<1>4. JobsCopied'
  <2>1. \A x \in JobName : x = "forward" \/ x = "prefetch"
    BY DEF JobName
  <2>2. ASSUME NEW i \in DOMAIN copies, NEW x \in JobName, copies[i].buffer = jobs'[x].buffer
        PROVE  copies[i].module = jobs'[x].prefix
    BY <1>1, <2>1, <2>2 DEF StreamInv, JobsCopied, JobName
  <2>3. ASSUME NEW x \in JobName, Done(jobs[x])' PROVE content[jobs'[x].buffer] = jobs'[x].prefix
    BY <1>1, <1>3, <2>1, <2>3 DEF StreamInv, JobsCopied, JobName
  <2> QED BY <2>2, <2>3 DEF StreamInv, JobsCopied
<1>5. CopiesBehind' /\ KernelsRead'
  BY DEF StreamInv, CopiesBehind, KernelsRead
<1> QED BY <1>1, <1>2, <1>3, <1>4, <1>5 DEF StreamInv

(* or the kernels of a module whose weights are there are enqueued, and a wait for them.      *)
LEMMA ForwardStream ==
  ASSUME StreamInv, Forward, Done(jobs.forward), jobs.forward.prefix = module, module \in ModuleKey
  PROVE  /\ StreamInv'
         /\ \A x \in JobName : Done(jobs[x]) => Done(jobs[x])'
<1> DEFINE n == Len(copies)
           m == Len(kernels)
           w == WaitForKernels[1]
           b == jobs.forward.buffer
<1>1. /\ n \in Nat /\ DOMAIN copies = 1 .. n /\ m \in Nat /\ DOMAIN kernels = 1 .. m
      /\ \A i \in 1 .. n : copies[i].kind = "wait" <=> copies[i].buffer = "none"
      /\ b \in Buffer /\ "none" \notin Buffer
      /\ \A x \in JobName : jobs[x].buffer \in Buffer
      /\ \A k \in 1 .. m : kernels[k].buffer \in Buffer
  BY StreamKnown DEF JobName
<1>2. w \in EntryType /\ w.kind = "wait" /\ w.buffer = "none" /\ w.behind = m + 1
  BY <1>1 DEF WaitForKernels, EntryType, MaybeModule
<1>3. /\ DOMAIN copies' = 1 .. (n + 1) /\ copies' \in Seq(EntryType)
      /\ \A i \in 1 .. n : copies'[i] = copies[i]
      /\ copies'[n + 1] = w
  <2>1. copies \in Seq(EntryType)
    BY DEF StreamInv, StreamTypes
  <2>2. WaitForKernels = <<w>>
    BY DEF WaitForKernels
  <2>3. copies' = copies \o <<w>>
    BY <2>2 DEF Forward
  <2> HIDE DEF w
  <2>4. copies \o <<w>> = Append(copies, w)
    BY <1>2, <2>1
  <2> QED BY <1>2, <2>1, <2>3, <2>4, EntryAdded
<1>4. /\ DOMAIN kernels' = 1 .. (m + 1) /\ Len(kernels') = m + 1
      /\ kernels' \in Seq([module : ModuleKey, buffer : Buffer])
      /\ \A k \in 1 .. m : kernels'[k] = kernels[k]
      /\ kernels'[m + 1].buffer = b /\ kernels'[m + 1].module = module
  <2>1. PICK k : k = [module |-> module, buffer |-> b]
    OBVIOUS
  <2>2. k \in [module : ModuleKey, buffer : Buffer] /\ k.buffer = b /\ k.module = module
    BY <1>1, <2>1
  <2>3. kernels' = Append(kernels, k) /\ kernels \in Seq([module : ModuleKey, buffer : Buffer])
    BY <2>1 DEF Forward, StreamInv, StreamTypes
  <2> QED BY <2>2, <2>3
<1> HIDE DEF w
<1>5. UNCHANGED <<jobs, content>>
  BY DEF Forward
<1>6. /\ \A i \in 1 .. (n + 1) : i \in 1 .. n \/ i = n + 1
      /\ \A k \in 1 .. (m + 1) : k \in 1 .. m \/ k = m + 1
      /\ n + 1 \in 1 .. (n + 1)
  BY <1>1
<1>7. StreamTypes'
  <2>1. \A i \in 1 .. (n + 1) : copies'[i].kind = "wait" <=> copies'[i].buffer = "none"
    BY <1>1, <1>2, <1>3, <1>6
  <2> QED BY <1>3, <1>4, <1>5, <2>1 DEF StreamInv, StreamTypes
<1>8. \A x \in JobName : Done(jobs[x]) <=> Done(jobs[x])'
  BY <1>1, <1>2, <1>3, <1>5, <1>6 DEF Done
<1>9. JobsCopied'
  <2>1. ASSUME NEW i \in 1 .. (n + 1), NEW j \in 1 .. (n + 1),
               copies'[i].buffer # "none", copies'[i].buffer = copies'[j].buffer
        PROVE  i = j
    <3>1. i \in 1 .. n /\ j \in 1 .. n
      BY <1>2, <1>3, <1>6, <2>1
    <3> QED BY <1>1, <1>3, <2>1, <3>1 DEF StreamInv, JobsCopied
  <2>2. ASSUME NEW i \in 1 .. (n + 1), NEW x \in JobName, copies'[i].buffer = jobs[x].buffer
        PROVE  copies'[i].module = jobs[x].prefix
    <3>1. i \in 1 .. n
      BY <1>1, <1>2, <1>3, <1>6, <2>2
    <3> QED BY <1>1, <1>3, <2>2, <3>1 DEF StreamInv, JobsCopied
  <2> QED BY <1>3, <1>5, <1>8, <2>1, <2>2 DEF StreamInv, JobsCopied
<1>10. CopiesBehind'
  <2>1. copies'[n + 1].kind = "wait" /\ copies'[n + 1].behind >= m + 1
    BY <1>1, <1>2, <1>3
  <2>2. ASSUME NEW i \in 1 .. (n + 1), NEW k \in 1 .. (m + 1), copies'[i].buffer = kernels'[k].buffer
        PROVE  \E j \in 1 .. (i - 1) : copies'[j].kind = "wait" /\ copies'[j].behind >= k
    <3>1. kernels'[k].buffer \in Buffer
      BY <1>1, <1>4, <1>6
    <3>2. i \in 1 .. n
      BY <1>1, <1>2, <1>3, <1>6, <2>2, <3>1
    <3>3. k \in 1 .. m
      <4>1. copies[i].buffer # b
        BY <1>1, <3>2 DEF Done
      <4> QED BY <1>3, <1>4, <1>6, <2>2, <3>2, <4>1
    <3>4. copies[i].buffer = kernels[k].buffer
      BY <1>3, <1>4, <2>2, <3>2, <3>3
    <3>5. PICK j \in 1 .. (i - 1) : copies[j].kind = "wait" /\ copies[j].behind >= k
      BY <1>1, <3>2, <3>3, <3>4 DEF StreamInv, CopiesBehind
    <3>6. j \in 1 .. n
      BY <1>1, <3>2
    <3> QED BY <1>3, <3>5, <3>6
  <2> QED BY <1>3, <1>4, <1>6, <2>1, <2>2 DEF CopiesBehind
<1>11. KernelsRead'
  <2>1. content[b] = module
    BY DEF StreamInv, JobsCopied, JobName
  <2>2. \A k \in 1 .. m : content[kernels[k].buffer] = kernels[k].module
    BY <1>1 DEF StreamInv, KernelsRead
  <2> QED BY <1>4, <1>5, <1>6, <2>1, <2>2 DEF KernelsRead
<1> QED BY <1>7, <1>8, <1>9, <1>10, <1>11 DEF StreamInv

Device == KernelEnds \/ WaitEnds \/ CopyStarts \/ CopyEnds

LEMMA DeviceStream ==
  ASSUME StreamInv, Device
  PROVE  /\ StreamInv'
         /\ UNCHANGED <<manager, trace, cur_time, next_use_time_map, cacheVars, ppos, module, jobs,
                        raised, followed>>
         /\ \A x \in JobName : Done(jobs[x]) => Done(jobs[x])'
<1>1. StreamInv'
  BY KernelStream, WaitStream, CopyStartStream, CopyEndStream DEF Device
<1>2. UNCHANGED <<manager, trace, cur_time, next_use_time_map, cacheVars, ppos, module, jobs,
                  raised, followed>>
  BY DEF Device, KernelEnds, WaitEnds, CopyStarts, CopyEnds, StreamUnchanged, policyVars, cacheVars
<1>3. ASSUME NEW x \in JobName, Done(jobs[x]) PROVE Done(jobs[x])'
  <2>1. CASE KernelEnds
    <3>1. copies' = [i \in DOMAIN copies |-> [copies[i] EXCEPT !.behind = Max({0, copies[i].behind - 1})]]
      BY <2>1 DEF KernelEnds
    <3>2. DOMAIN copies' = DOMAIN copies
      BY <3>1
    <3>3. ASSUME NEW i \in DOMAIN copies PROVE copies'[i].buffer = copies[i].buffer
      <4>1. PICK w : w = Max({0, copies[i].behind - 1})
        OBVIOUS
      <4>2. copies'[i] = [copies[i] EXCEPT !.behind = w]
        BY <3>1, <4>1
      <4>3. copies[i] \in EntryType
        <5>1. copies \in Seq(EntryType)
          BY DEF StreamInv, StreamTypes
        <5> QED BY <5>1
      <4> QED BY <4>2, <4>3 DEF EntryType
    <3> QED BY <1>2, <1>3, <3>2, <3>3 DEF Done
  <2>2. CASE WaitEnds \/ CopyEnds
    <3>1. /\ DOMAIN copies = 1 .. Len(copies) /\ DOMAIN copies' = 1 .. (Len(copies) - 1)
          /\ \A i \in 1 .. (Len(copies) - 1) : copies'[i] = copies[i + 1]
          /\ Len(copies) \in Nat
      BY <2>2, EntryLeaves DEF WaitEnds, CopyEnds, StreamInv, StreamTypes
    <3>2. \A i \in 1 .. (Len(copies) - 1) : i + 1 \in 1 .. Len(copies)
      BY <3>1
    <3> QED BY <1>2, <1>3, <3>1, <3>2 DEF Done
  <2>3. CASE CopyStarts
    BY <1>2, <1>3, <2>3 DEF CopyStarts, Done
  <2> QED BY <2>1, <2>2, <2>3 DEF Device
<1> QED BY <1>1, <1>2, <1>3

LEMMA DeviceKeeps == ASSUME ManagersInv, Device PROVE ManagersInv'
<1>1. /\ StreamInv'
      /\ UNCHANGED <<manager, trace, cur_time, next_use_time_map, cacheVars, ppos, module, jobs,
                     raised, followed>>
      /\ Done(jobs.forward) => Done(jobs.forward)'
      /\ Done(jobs.prefetch) => Done(jobs.prefetch)'
  BY DeviceStream DEF ManagersInv, JobName
<1>2. ManagerTypes' /\ UsesKnown' /\ CacheInv'
  BY <1>1 DEF ManagersInv, ManagerTypes, UsesKnown, CacheInv, cacheVars
<1>3. PlaceInv'
  BY <1>1 DEF ManagersInv, PlaceInv
<1>4. FollowInv'
  <2>1. PredictNext(cur_time)' = PredictNext(cur_time)
    BY <1>1 DEF PredictNext
  <2> QED BY <1>1, <2>1 DEF ManagersInv, FollowInv
<1> QED BY <1>1, <1>2, <1>3, <1>4 DEF ManagersInv

-----------------------------------------------------------------------------
(* The cache of modules *)

LEMMA PredictedModule ==
  ASSUME ManagerTypes, NEW m \in ModuleKey
  PROVE  /\ PredictNext(cur_time) = m <=> cur_time + 1 < Len(trace) /\ trace[cur_time + 2] = m
         /\ PredictNext(cur_time) \in MaybeModule
<1>1. NoModule # m
  BY ManagersAssumption
<1>2. Len(trace) > cur_time + 1 => cur_time + 2 \in 1 .. Len(trace)
  BY DEF ManagerTypes
<1>3. \A i \in 1 .. Len(trace) : trace[i] \in ModuleKey
  BY DEF ManagerTypes
<1> QED BY <1>1, <1>2, <1>3 DEF PredictNext, ManagerTypes, MaybeModule

LEMMA AccessedKeeps ==
  ASSUME ManagersInv, manager # "prefetch", NEW m \in ModuleKey, Called(m),
         NEW known, NEW order, Accessed(known, order),
         DOMAIN known \subseteq DOMAIN next_use_time_map,
         \A k \in DOMAIN known : known[k] = next_use_time_map[k],
         ppos' = "forward", UNCHANGED streamVars
  PROVE  ManagerTypes' /\ StreamInv' /\ UsesKnown' /\ PlaceInv' /\ FollowInv' /\ module' = m
<1>1. ManagerTypes /\ UsesKnown
  BY DEF ManagersInv
<1>2. /\ module' = m /\ UNCHANGED <<manager, trace>> /\ ~raised /\ followed' \in BOOLEAN
      /\ followed' => followed /\ (manager = "lru" \/ PredictNext(cur_time) = m)
  BY <1>1 DEF Called, ManagerTypes
<1>3. StreamInv'
  BY StreamFrame DEF ManagersInv
<1>4. PlaceInv'
  BY <1>2 DEF PlaceInv
<1>5. CASE manager = "lru"
  <2>1. UNCHANGED <<cur_time, next_use_time_map, raised>>
    BY <1>5 DEF Accessed
  <2>2. ManagerTypes' /\ UsesKnown'
    BY <1>1, <1>2, <2>1 DEF ManagerTypes, UsesKnown, MaybeModule
  <2>3. FollowInv'
    BY <1>2, <1>5, <2>1 DEF FollowInv
  <2> QED BY <1>2, <1>3, <1>4, <2>2, <2>3
<1>6. CASE manager # "lru" /\ InStep(m)
  <2>1. /\ cur_time' = cur_time + 1 /\ raised' = raised
        /\ next_use_time_map' = WithUse(known, m, cur_time + 1)
    BY <1>2, <1>6 DEF Accessed, InStep
  <2>2. /\ cur_time' \in -1 .. (Len(trace) - 1)
        /\ \A k \in DOMAIN next_use_time_map' : next_use_time_map'[k] = NextUse(trace, k, cur_time')
    BY <1>1, <1>6, <2>1, AccessKnown
  <2>3. ManagerTypes' /\ UsesKnown'
    BY <1>1, <1>2, <2>1, <2>2 DEF ManagerTypes, UsesKnown, MaybeModule, NextUse
  <2>4. FollowInv'
    BY <1>2, <2>1 DEF FollowInv
  <2> QED BY <1>2, <1>3, <1>4, <2>3, <2>4
<1>7. CASE manager # "lru" /\ ~InStep(m)
  <2>1. raised' = TRUE /\ UNCHANGED <<cur_time, next_use_time_map>>
    BY <1>2, <1>7 DEF Accessed, InStep
  <2>2. ManagerTypes' /\ UsesKnown'
    BY <1>1, <1>2, <2>1 DEF ManagerTypes, UsesKnown, MaybeModule
  <2>3. ~followed'
    BY <1>1, <1>2, <1>7, InStepFacts, PredictedModule
  <2> QED BY <1>2, <1>3, <1>4, <2>2, <2>3 DEF FollowInv
<1> QED BY <1>5, <1>6, <1>7

LEMMA HitKeeps == ASSUME ManagersInv, NEW m \in ModuleKey, Hit(m) PROVE ManagersInv'
<1>1. ManagerTypes' /\ StreamInv' /\ UsesKnown' /\ PlaceInv' /\ FollowInv' /\ module' = m
  <2>1. PICK order : Accessed(next_use_time_map, order)
    BY DEF Hit
  <2> QED BY <2>1, AccessedKeeps DEF Hit
<1>2. CacheInv'
  BY <1>1 DEF Hit, ManagersInv, CacheInv, cacheVars
<1> QED BY <1>1, <1>2 DEF ManagersInv

LEMMA MissKeeps == ASSUME ManagersInv, NEW m \in ModuleKey, Miss(m) PROVE ManagersInv'
<1>1. Called(m) /\ manager # "prefetch" /\ ppos' = "forward" /\ UNCHANGED streamVars
  BY DEF Miss
<1>2. CASE Cardinality(cached_map) < CacheLen
  <2>1. PICK order : Accessed(next_use_time_map, order)
    BY <1>2 DEF Miss
  <2>2. ManagerTypes' /\ StreamInv' /\ UsesKnown' /\ PlaceInv' /\ FollowInv' /\ module' = m
    BY <1>1, <2>1, AccessedKeeps
  <2>3. CacheInv'
    BY <1>2, <2>2 DEF Miss, ManagersInv, CacheInv
  <2> QED BY <2>2, <2>3 DEF ManagersInv
<1>3. CASE ~(Cardinality(cached_map) < CacheLen)
  <2>1. PICK v \in cached_map :
          /\ Evicted(v)
          /\ Accessed(Restrict(next_use_time_map, (DOMAIN next_use_time_map) \ {v}),
                      SelectSeq(last_use_order, LAMBDA k : k # v))
    BY <1>3 DEF Miss
  <2>2. PICK known : known = Restrict(next_use_time_map, (DOMAIN next_use_time_map) \ {v})
    OBVIOUS
  <2>3. PICK order : Accessed(known, order)
    BY <2>1, <2>2
  <2>4. /\ DOMAIN known \subseteq DOMAIN next_use_time_map
        /\ \A k \in DOMAIN known : known[k] = next_use_time_map[k]
    BY <2>2 DEF Restrict
  <2>5. ManagerTypes' /\ StreamInv' /\ UsesKnown' /\ PlaceInv' /\ FollowInv' /\ module' = m
    BY <1>1, <2>3, <2>4, AccessedKeeps
  <2>6. CacheInv'
    BY <2>1, <2>5 DEF Evicted, ManagersInv, CacheInv
  <2> QED BY <2>5, <2>6 DEF ManagersInv
<1> QED BY <1>2, <1>3

LEMMA CacheKeeps == ASSUME ManagersInv, ClearCache \/ CachedForward PROVE ManagersInv'
<1>1. /\ manager # "prefetch" /\ ppos' = "idle"
      /\ UNCHANGED <<manager, trace, cur_time, module, streamVars, raised, followed, on_device>>
      /\ cached_map' \subseteq cached_map
      /\ next_use_time_map' = next_use_time_map \/ DOMAIN next_use_time_map' = {}
  BY DEF ClearCache, CachedForward, policyVars, cacheVars
<1>2. StreamInv'
  BY <1>1, StreamFrame DEF ManagersInv
<1>3. ManagerTypes' /\ UsesKnown'
  BY <1>1 DEF ManagersInv, ManagerTypes, UsesKnown
<1>4. PlaceInv' /\ CacheInv' /\ FollowInv'
  BY <1>1 DEF ManagersInv, PlaceInv, CacheInv, FollowInv
<1> QED BY <1>2, <1>3, <1>4 DEF ManagersInv

-----------------------------------------------------------------------------
(* The prefetcher of modules *)

(* Steps that touch neither the oracle nor the cache. *)
LEMMA PolicyFrame ==
  ASSUME ManagersInv, UNCHANGED <<manager, trace, policyVars, cacheVars>>, manager = "prefetch",
         module' \in MaybeModule, raised' \in BOOLEAN, followed' \in BOOLEAN
  PROVE  ManagerTypes' /\ UsesKnown' /\ CacheInv' /\ PredictNext(cur_time)' = PredictNext(cur_time)
BY DEF ManagersInv, ManagerTypes, UsesKnown, CacheInv, policyVars, cacheVars, PredictNext

LEMMA CallKeeps ==
  ASSUME ManagersInv, NEW m \in ModuleKey, AsPredicted(m) \/ Mispredicted(m)
  PROVE  ManagersInv'
<1>1. /\ manager = "prefetch" /\ Called(m) /\ jobs' = Exchanged
      /\ UNCHANGED <<policyVars, cacheVars, copies, kernels, content>>
  BY DEF AsPredicted, Mispredicted
<1>2. /\ ppos = "idle" /\ ~raised /\ module' = m /\ UNCHANGED <<manager, trace>>
      /\ followed' = (followed /\ PredictNext(cur_time) = m) /\ m \in MaybeModule
  BY <1>1 DEF Called, MaybeModule
<1>3. followed' \in BOOLEAN /\ raised' \in BOOLEAN
  BY <1>2 DEF AsPredicted, Mispredicted, ManagersInv, ManagerTypes
<1>4. ManagerTypes' /\ UsesKnown' /\ CacheInv' /\ PredictNext(cur_time)' = PredictNext(cur_time)
  BY <1>1, <1>2, <1>3, PolicyFrame
<1>5. /\ StreamInv' /\ jobs'.forward = jobs.prefetch /\ Done(jobs.prefetch)'
  BY <1>1, <1>2, ExchangeStream DEF ManagersInv, PlaceInv
<1>6. CASE AsPredicted(m)
  <2>1. PlaceInv'
    BY <1>1, <1>2, <1>5, <1>6 DEF AsPredicted, PlaceInv
  <2>2. FollowInv'
    BY <1>1, <1>2, <1>4, <1>6 DEF AsPredicted, FollowInv
  <2> QED BY <1>4, <1>5, <2>1, <2>2 DEF ManagersInv
<1>7. CASE Mispredicted(m)
  <2>1. PlaceInv'
    BY <1>1, <1>2, <1>5, <1>7 DEF Mispredicted, PlaceInv
  <2>2. ~followed'
    <3>1. m # jobs.prefetch.prefix /\ cur_time # -1 /\ m # NoModule
      BY <1>7, ManagersAssumption DEF Mispredicted
    <3> QED BY <1>1, <1>2, <3>1 DEF ManagersInv, FollowInv
  <2> QED BY <1>4, <1>5, <2>1, <2>2 DEF ManagersInv, FollowInv
<1> QED BY <1>6, <1>7

LEMMA NewSequenceKeeps ==
  ASSUME ManagersInv, NEW m \in ModuleKey, NewSequence(m)
  PROVE  ManagersInv'
<1>1. /\ manager = "prefetch" /\ Called(m) /\ cur_time = -1
      /\ UNCHANGED <<policyVars, cacheVars, kernels, content>>
  BY DEF NewSequence
<1>2. /\ ppos = "idle" /\ ~raised /\ module' = m /\ UNCHANGED <<manager, trace>>
      /\ followed' = (followed /\ PredictNext(cur_time) = m) /\ m \in MaybeModule
  BY <1>1 DEF Called, MaybeModule
<1>3. CASE Done(jobs.forward) /\ Done(jobs.prefetch) /\ PredictNext(-1) = m
  <2>1. /\ jobs' = [jobs EXCEPT !.forward = Launched(jobs.forward, m)]
        /\ copies' = Append(copies, CopyTo(jobs.forward, m))
        /\ ppos' = "arriving" /\ raised' = raised
    BY <1>3 DEF NewSequence
  <2>2. StreamInv' /\ jobs'["forward"].prefix = m /\ Done(jobs["prefetch"])'
    <3>1. "forward" \in JobName /\ "prefetch" \in JobName /\ StreamInv
      BY DEF JobName, ManagersInv
    <3> QED BY <1>1, <1>3, <2>1, <3>1, LaunchStream
  <2>3. ManagerTypes' /\ UsesKnown' /\ CacheInv' /\ PredictNext(cur_time)' = PredictNext(cur_time)
    BY <1>1, <1>2, <2>1, PolicyFrame DEF ManagersInv, ManagerTypes
  <2>4. PlaceInv'
    BY <1>1, <1>2, <2>1, <2>2 DEF PlaceInv
  <2>5. FollowInv'
    BY <1>1, <1>2, <2>1, <2>3 DEF FollowInv
  <2> QED BY <2>2, <2>3, <2>4, <2>5 DEF ManagersInv
<1>4. CASE ~(Done(jobs.forward) /\ Done(jobs.prefetch) /\ PredictNext(-1) = m)
  <2>1. raised' = TRUE /\ UNCHANGED <<jobs, copies, ppos>>
    BY <1>4 DEF NewSequence
  <2>2. ManagerTypes' /\ UsesKnown' /\ CacheInv'
    BY <1>1, <1>2, <2>1, PolicyFrame DEF ManagersInv, ManagerTypes
  <2>3. StreamInv' /\ (Done(jobs.forward) => Done(jobs.forward)')
    BY <1>1, <2>1, StreamFrame DEF ManagersInv, streamVars, Done
  <2>4. PlaceInv'
    BY <1>1, <1>2, <2>1, <2>3 DEF ManagersInv, PlaceInv
  <2>5. ~followed'
    BY <1>1, <1>2, <1>4 DEF ManagersInv, FollowInv, PlaceInv
  <2> QED BY <2>2, <2>3, <2>4, <2>5 DEF ManagersInv, FollowInv
<1> QED BY <1>3, <1>4

LEMMA RecopyKeeps == ASSUME ManagersInv, Recopy \/ Recopied PROVE ManagersInv'
<1>1. manager = "prefetch"
  BY DEF ManagersInv, PlaceInv, Recopy, Recopied
<1>2. /\ UNCHANGED <<manager, trace, policyVars, cacheVars, module, kernels, content, raised, followed>>
      /\ ppos \in {"mispredicted", "recopied"}
  BY DEF Recopy, Recopied, streamVars
<1>3. ManagerTypes' /\ UsesKnown' /\ CacheInv'
  BY <1>1, <1>2, PolicyFrame DEF ManagersInv, ManagerTypes
<1>4. ~followed'
  BY <1>1, <1>2 DEF ManagersInv, FollowInv
<1>5. StreamInv' /\ PlaceInv'
  <2>1. CASE Recopy
    <3>1. /\ jobs' = [jobs EXCEPT !.forward = Launched(jobs.forward, module)]
          /\ copies' = Append(copies, CopyTo(jobs.forward, module))
          /\ ppos = "mispredicted" /\ ppos' = "recopied" /\ Done(jobs.forward)
      BY <2>1 DEF Recopy
    <3>2. module \in ModuleKey /\ Done(jobs.prefetch)
      BY <1>1, <3>1 DEF ManagersInv, PlaceInv
    <3>3. StreamInv' /\ jobs'["forward"].prefix = module /\ Done(jobs["prefetch"])'
      <4>1. "forward" \in JobName /\ "prefetch" \in JobName /\ StreamInv
        BY DEF JobName, ManagersInv
      <4> QED BY <1>2, <3>1, <3>2, <4>1, LaunchStream
    <3> QED BY <1>1, <1>2, <3>1, <3>2, <3>3 DEF PlaceInv
  <2>2. CASE Recopied
    <3>1. StreamInv' /\ (Done(jobs.forward) => Done(jobs.forward)') /\ jobs' = jobs
      BY <2>2, StreamFrame DEF Recopied, ManagersInv, streamVars, Done
    <3> QED BY <1>1, <1>2, <2>2, <3>1 DEF Recopied, ManagersInv, PlaceInv
  <2> QED BY <2>1, <2>2
<1> QED BY <1>3, <1>4, <1>5 DEF ManagersInv, FollowInv

LEMMA ArrivedKeeps == ASSUME ManagersInv, Arrived PROVE ManagersInv'
<1>1. manager = "prefetch"
  BY DEF ManagersInv, PlaceInv, Arrived
<1>2. /\ ppos = "arriving" /\ ~raised /\ Done(jobs.forward)
      /\ UNCHANGED <<manager, trace, last_use_order, cacheVars, module, kernels, content, followed>>
  BY DEF Arrived
<1>3. /\ Done(jobs.prefetch) /\ jobs.forward.prefix = module /\ module \in ModuleKey
      /\ ManagerTypes /\ UsesKnown /\ StreamInv /\ CacheInv
  BY <1>1, <1>2 DEF ManagersInv, PlaceInv
<1>4. CASE InStep(module)
  <2> DEFINE coming == PredictNext(cur_time + 1)
  <2>1. /\ cur_time' = cur_time + 1 /\ ppos' = "forward" /\ raised' = raised
        /\ next_use_time_map' = WithUse(next_use_time_map, module, cur_time + 1)
        /\ coming = NoModule => UNCHANGED <<jobs, copies>>
        /\ coming # NoModule =>
             /\ jobs' = [jobs EXCEPT !.prefetch = Launched(jobs.prefetch, coming)]
             /\ copies' = Append(copies, CopyTo(jobs.prefetch, coming))
    BY <1>4 DEF Arrived
  <2>2. /\ cur_time' \in -1 .. (Len(trace) - 1)
        /\ \A k \in DOMAIN next_use_time_map' : next_use_time_map'[k] = NextUse(trace, k, cur_time')
    BY <1>3, <1>4, <2>1, AccessKnown
  <2>3. ManagerTypes' /\ UsesKnown' /\ CacheInv'
    BY <1>1, <1>2, <1>3, <2>1, <2>2 DEF ManagerTypes, UsesKnown, CacheInv, cacheVars, NextUse
  <2>4. coming # NoModule => coming \in ModuleKey /\ cur_time' + 1 # Len(trace)
    <3>1. \A i \in 1 .. Len(trace) : trace[i] \in ModuleKey
      BY <1>3 DEF ManagerTypes
    <3>2. Len(trace) > (cur_time + 1) + 1 => (cur_time + 1) + 2 \in 1 .. Len(trace)
      BY <1>3 DEF ManagerTypes
    <3> QED BY <1>3, <2>1, <3>1, <3>2 DEF PredictNext, ManagerTypes
  <2>5. PredictNext(cur_time)' = coming
    BY <1>2, <2>1 DEF PredictNext
  <2>6. cur_time' # -1
    BY <1>3, <2>1 DEF ManagerTypes
  <2>7. /\ StreamInv' /\ Done(jobs.forward)' /\ jobs'.forward.prefix = module
        /\ coming = NoModule => Done(jobs.prefetch)'
        /\ coming # NoModule => jobs'.prefetch.prefix = coming
    <3>1. CASE coming = NoModule
      <4>1. UNCHANGED streamVars
        BY <1>2, <2>1, <3>1 DEF streamVars
      <4> QED BY <1>2, <1>3, <3>1, <4>1, StreamFrame DEF streamVars, Done
    <3>2. CASE coming # NoModule
      <4>1. "forward" \in JobName /\ "prefetch" \in JobName
        BY DEF JobName
      <4>2. coming \in ModuleKey
        BY <2>4, <3>2
      <4> HIDE DEF coming
      <4>3. /\ StreamInv' /\ jobs'["prefetch"].prefix = coming
            /\ jobs'["forward"] = jobs["forward"] /\ Done(jobs["forward"])'
        BY <1>2, <1>3, <2>1, <3>2, <4>1, <4>2, LaunchStream
      <4> QED BY <1>3, <3>2, <4>3
    <3> QED BY <3>1, <3>2
  <2> HIDE DEF coming
  <2>8. PlaceInv'
    BY <1>1, <1>2, <1>3, <2>1, <2>7 DEF PlaceInv
  <2>9. FollowInv'
    BY <1>1, <1>2, <2>1, <2>4, <2>5, <2>6, <2>7 DEF FollowInv
  <2> QED BY <2>3, <2>7, <2>8, <2>9 DEF ManagersInv
<1>5. CASE ~InStep(module)
  <2>1. raised' = TRUE /\ UNCHANGED <<cur_time, next_use_time_map, jobs, copies, ppos>>
    BY <1>5 DEF Arrived
  <2>2. ManagerTypes' /\ UsesKnown' /\ CacheInv'
    BY <1>1, <1>2, <1>3, <2>1 DEF ManagerTypes, UsesKnown, CacheInv, cacheVars
  <2>3. StreamInv' /\ (Done(jobs.prefetch) => Done(jobs.prefetch)')
    BY <1>2, <1>3, <2>1, StreamFrame DEF streamVars, Done
  <2>4. PlaceInv'
    BY <1>1, <1>2, <1>3, <2>1, <2>3 DEF PlaceInv
  <2>5. ~followed
    BY <1>1, <1>2, <1>3, <1>5, InStepFacts, PredictedModule DEF ManagersInv, FollowInv
  <2> QED BY <1>2, <2>2, <2>3, <2>4, <2>5 DEF ManagersInv, FollowInv
<1> QED BY <1>4, <1>5

LEMMA ForwardKeeps == ASSUME ManagersInv, Forward PROVE ManagersInv'
<1>1. /\ ppos = "forward" /\ manager = "prefetch" /\ ppos' = "idle"
      /\ UNCHANGED <<manager, trace, policyVars, cacheVars, module, jobs, raised, followed>>
  BY DEF Forward
<1>2. Done(jobs.forward) /\ jobs.forward.prefix = module /\ module \in ModuleKey
  BY <1>1 DEF ManagersInv, PlaceInv
<1>3. StreamInv' /\ Done(jobs.forward)' /\ (Done(jobs.prefetch) => Done(jobs.prefetch)')
  BY <1>2, ForwardStream DEF ManagersInv, JobName
<1>4. ManagerTypes' /\ UsesKnown' /\ CacheInv' /\ PredictNext(cur_time)' = PredictNext(cur_time)
  BY <1>1, PolicyFrame DEF ManagersInv, ManagerTypes
<1>5. PlaceInv'
  BY <1>1, <1>3 DEF PlaceInv
<1>6. FollowInv'
  <2>1. UNCHANGED <<cur_time, trace>>
    BY <1>1 DEF policyVars
  <2> QED BY <1>1, <1>3, <1>4, <2>1 DEF ManagersInv, FollowInv
<1> QED BY <1>3, <1>4, <1>5, <1>6 DEF ManagersInv

LEMMA SetCurSeqKeeps == ASSUME ManagersInv, SetCurSeq PROVE ManagersInv'
<1>1. /\ ppos = "idle" /\ ~raised /\ cur_time' = -1
      /\ followed' = (followed /\ cur_time + 1 = Len(trace))
      /\ next_use_time_map' = [k \in DOMAIN next_use_time_map |-> NextUse(trace', k, -1)]
      /\ UNCHANGED <<manager, cacheVars, ppos, module, streamVars, raised>>
  BY DEF SetCurSeq
<1>2. trace' \in Seq(ModuleKey) /\ Len(trace') \in 1 .. MaxTime
  <2>1. PICK n \in 1 .. MaxTime : trace' \in [1 .. n -> ModuleKey]
    BY DEF SetCurSeq
  <2> QED BY <2>1, ManagersAssumption
<1>3. ManagerTypes'
  BY <1>1, <1>2 DEF ManagersInv, ManagerTypes
<1>4. UsesKnown' /\ CacheInv'
  BY <1>1 DEF ManagersInv, UsesKnown, CacheInv, cacheVars, NextUse
<1>5. /\ StreamInv' /\ (Done(jobs.forward) => Done(jobs.forward)')
      /\ (Done(jobs.prefetch) => Done(jobs.prefetch)')
  BY <1>1, StreamFrame DEF ManagersInv, streamVars, Done
<1>6. PlaceInv'
  BY <1>1, <1>5 DEF ManagersInv, PlaceInv
<1>7. FollowInv'
  BY <1>1, <1>5 DEF ManagersInv, FollowInv
<1> QED BY <1>3, <1>4, <1>5, <1>6, <1>7 DEF ManagersInv

LEMMA NextManagersInv == ManagersInv /\ [NextManagers]_managerVars => ManagersInv'
<1> SUFFICES ASSUME ManagersInv, [NextManagers]_managerVars PROVE ManagersInv'
  OBVIOUS
<1>1. CASE UNCHANGED managerVars
  <2>1. /\ UNCHANGED <<manager, trace, cur_time, next_use_time_map, cached_map, on_device, ppos, module>>
        /\ UNCHANGED <<raised, followed, streamVars, jobs, copies>>
    BY <1>1 DEF managerVars, policyVars, cacheVars, streamVars
  <2>2. StreamInv'
    BY <2>1, StreamFrame DEF ManagersInv
  <2>3. ManagerTypes' /\ UsesKnown' /\ CacheInv'
    BY <2>1 DEF ManagersInv, ManagerTypes, UsesKnown, CacheInv
  <2>4. PlaceInv' /\ FollowInv'
    BY <2>1 DEF ManagersInv, PlaceInv, FollowInv, Done, PredictNext
  <2> QED BY <2>2, <2>3, <2>4 DEF ManagersInv
<1>2. ASSUME NEW m \in ModuleKey,
             Hit(m) \/ Miss(m) \/ AsPredicted(m) \/ Mispredicted(m) \/ NewSequence(m)
      PROVE  ManagersInv'
  BY <1>2, HitKeeps, MissKeeps, CallKeeps, NewSequenceKeeps
<1>3. CASE Device
  BY <1>3, DeviceKeeps
<1>4. CASE SetCurSeq \/ ClearCache \/ CachedForward \/ Recopy \/ Recopied \/ Arrived \/ Forward
  BY <1>4, SetCurSeqKeeps, CacheKeeps, RecopyKeeps, ArrivedKeeps, ForwardKeeps
<1> QED BY <1>1, <1>2, <1>3, <1>4 DEF NextManagers, Device

LEMMA InitManagersInv == InitManagers => ManagersInv
<1> SUFFICES ASSUME InitManagers PROVE ManagersInv
  OBVIOUS
<1>1. /\ trace = << >> /\ cur_time = -1 /\ next_use_time_map = << >> /\ cached_map = {} /\ on_device = {}
      /\ ppos = "idle" /\ module = NoModule
      /\ jobs = [forward |-> [prefix |-> NoModule, buffer |-> "a"],
                 prefetch |-> [prefix |-> NoModule, buffer |-> "b"]]
      /\ copies = << >> /\ kernels = << >> /\ content = [b \in Buffer |-> NoModule]
      /\ raised = FALSE /\ followed = TRUE /\ manager \in {"lru", "oracle", "prefetch"}
  BY DEF InitManagers, IdleManagers
<1>2. DOMAIN copies = {} /\ DOMAIN kernels = {} /\ DOMAIN next_use_time_map = {} /\ Len(trace) = 0
  BY <1>1
<1>3. ManagerTypes
  <2>1. trace \in Seq(ModuleKey)
    BY <1>1
  <2>2. Len(trace) <= MaxTime /\ cur_time \in -1 .. (Len(trace) - 1)
    <3>1. MaxTime \in Nat
      BY ManagersAssumption
    <3> QED BY <1>1, <1>2, <3>1
  <2>3. /\ manager \in {"lru", "oracle", "prefetch"} /\ module \in MaybeModule
        /\ raised \in BOOLEAN /\ followed \in BOOLEAN
    BY <1>1 DEF MaybeModule
  <2> QED BY <2>1, <2>2, <2>3 DEF ManagerTypes
<1>4. StreamTypes
  BY <1>1, <1>2 DEF StreamTypes, Buffer, MaybeModule
<1>5. JobsCopied
  BY <1>1, <1>2 DEF JobsCopied, JobName, Buffer
<1>6. CopiesBehind /\ KernelsRead /\ UsesKnown
  BY <1>1, <1>2 DEF CopiesBehind, KernelsRead, UsesKnown
<1>7. \A x : Done(x)
  BY <1>2 DEF Done
<1>8. PlaceInv /\ CacheInv /\ FollowInv
  BY <1>1, <1>7 DEF PlaceInv, CacheInv, FollowInv
<1> QED BY <1>3, <1>4, <1>5, <1>6, <1>8 DEF ManagersInv, StreamInv

(* Whatever modules are called, in whatever order, and whatever the sequences before have     *)
(* left in the cache and in the two jobs, the kernels of a module read its own weights and a  *)
(* cached module that is run is on the device; and no assertion of the managers fails while   *)
(* the model follows its traces.                                                              *)
THEOREM ManagersServe == SpecManagers => []ModulesServed
<1>1. ManagersInv => ModulesServed
  BY DEF ManagersInv, StreamInv, KernelsRead, CacheInv, FollowInv, ModulesServed
<1> QED BY <1>1, InitManagersInv, NextManagersInv, PTL DEF SpecManagers
=============================================================================

------------------------------- MODULE MinHeap -------------------------------
(***************************************************************************)
(* MinHeap of utils.hpp, the experts of a slot under the MIN and NN        *)
(* policies: a binary heap whose nodes know their place.  One action of    *)
(* Sift is one round of heapify_up or heapify_down; an operation starts    *)
(* when the one before it has ended.  The policies remove the front only.  *)
(***************************************************************************)
EXTENDS Integers, Sequences, FiniteSets

CONSTANTS Node, MaxPriority   \* bound: priorities are 0 .. MaxPriority

ASSUME HeapAssumption == IsFiniteSet(Node) /\ MaxPriority \in Nat

VARIABLES
  heap_buffer,
  priority, current_idx,
  up, down,     \* the index that heapify_up or heapify_down is at, or -1
  rebuilding    \* the index the loop of rebuild is at, or -1

heapVars == <<heap_buffer, priority, current_idx, up, down, rebuilding>>

Priority == 0 .. MaxPriority
HeapSize == Len(heap_buffer)
At(i) == heap_buffer[i + 1]
Present == {heap_buffer[i] : i \in 1 .. HeapSize}
Idle == up = -1 /\ down = -1 /\ rebuilding = -1

InitHeap ==
  /\ heap_buffer = << >>
  /\ priority = [n \in Node |-> 0] /\ current_idx = [n \in Node |-> 0]
  /\ up = -1 /\ down = -1 /\ rebuilding = -1

PushNode(n, p) ==
  /\ Idle /\ n \notin Present
  /\ heap_buffer' = Append(heap_buffer, n)
  /\ priority' = [priority EXCEPT ![n] = p]
  /\ current_idx' = [current_idx EXCEPT ![n] = HeapSize]
  /\ up' = HeapSize
  /\ UNCHANGED <<down, rebuilding>>

UpdatePriority(n, p) ==
  /\ Idle /\ n \in Present
  /\ priority' = [priority EXCEPT ![n] = p]
  /\ IF p < priority[n] THEN up' = current_idx[n] /\ down' = down
                        ELSE down' = current_idx[n] /\ up' = up
  /\ UNCHANGED <<heap_buffer, current_idx, rebuilding>>

(* remove(front()): the last node takes the place of the first. *)
RemoveFront ==
  /\ Idle /\ HeapSize > 0
  /\ heap_buffer' = SubSeq([heap_buffer EXCEPT ![1] = At(HeapSize - 1)], 1, HeapSize - 1)
  /\ current_idx' = [current_idx EXCEPT ![At(0)] = HeapSize - 1, ![At(HeapSize - 1)] = 0]
  /\ down' = IF HeapSize > 1 THEN 0 ELSE -1
  /\ UNCHANGED <<priority, up, rebuilding>>

(* set_cur_seq, update_all_priority: every node gets a new priority, then rebuild. *)
Rebuild(p) ==
  /\ Idle
  /\ priority' = [n \in Node |-> IF n \in Present THEN p[n] ELSE priority[n]]
  /\ rebuilding' = HeapSize \div 2
  /\ UNCHANGED <<heap_buffer, current_idx, up, down>>

RebuildStep ==
  /\ rebuilding >= 0 /\ down = -1
  /\ down' = rebuilding
  /\ rebuilding' = rebuilding - 1
  /\ UNCHANGED <<heap_buffer, priority, current_idx, up>>

(* Mutation of Indexed: only the node that moves to i learns its new place. *)
IndexedOne(i, j) == [current_idx EXCEPT ![At(j)] = i]

Indexed(i, j) == [current_idx EXCEPT ![At(j)] = i, ![At(i)] = j]

Swap(i, j) ==
  /\ heap_buffer' = [heap_buffer EXCEPT ![i + 1] = At(j), ![j + 1] = At(i)]
  /\ current_idx' = Indexed(i, j)

Parent(i) == (i - 1) \div 2

HeapifyUp ==
  /\ up >= 0
  /\ IF up > 0 /\ priority[At(Parent(up))] > priority[At(up)]
       THEN Swap(Parent(up), up) /\ up' = Parent(up)
       ELSE up' = -1 /\ UNCHANGED <<heap_buffer, current_idx>>
  /\ UNCHANGED <<priority, down, rebuilding>>

(* Mutation of Below: the right child is not looked at. *)
BelowLeft(i) == {j \in {2 * i + 1} : j < HeapSize}

Below(i) == {j \in {2 * i + 1, 2 * i + 2} : j < HeapSize}

(* The child to swap with; of two equal ones the left. *)
Smallest(i) ==
  CHOOSE j \in Below(i) : \A k \in Below(i) :
    \/ priority[At(j)] < priority[At(k)]
    \/ priority[At(j)] = priority[At(k)] /\ j <= k

HeapifyDown ==
  /\ down >= 0
  /\ IF \E j \in Below(down) : priority[At(j)] < priority[At(down)]
       THEN Swap(down, Smallest(down)) /\ down' = Smallest(down)
       ELSE down' = -1 /\ UNCHANGED <<heap_buffer, current_idx>>
  /\ UNCHANGED <<priority, up, rebuilding>>

Sift == HeapifyUp \/ HeapifyDown \/ RebuildStep

NextHeap ==
  \/ \E n \in Node, p \in Priority : PushNode(n, p) \/ UpdatePriority(n, p)
  \/ \E p \in [Node -> Priority] : Rebuild(p)
  \/ RemoveFront
  \/ Sift
-----------------------------------------------------------------------------
(* The node evict finds through the map is really at the place it remembers, also while the    *)
(* heap is sifted: no node is lost or listed twice.                                            *)
NodesKnowPlace == \A i \in 0 .. (HeapSize - 1) : current_idx[At(i)] = i

(* select_for_evict: at the front is an expert whose priority is the least in the slot (NN), or *)
(* whose next use is the latest (MIN), after any mix of hits, misses, evictions and updates.   *)
FrontIsLeast == Idle => \A n \in Present : priority[At(0)] <= priority[n]
=============================================================================

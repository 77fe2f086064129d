------------------------------- MODULE Startup -------------------------------
(***************************************************************************)
(* How many device buffers each cache slot gets, decided before the        *)
(* threads start (CacheMngr::init_gpu_mem_buffer).                         *)
(*                                                                         *)
(* bi_traverse orders the slots that get one of the remaining buffers: it  *)
(* takes the middle of an interval, then the middles of its halves, level  *)
(* by level.  One action is one round of its loop; when it meets a single  *)
(* slot while others are waiting, it puts the rest side by side and starts *)
(* again (in the code a call in tail position).                            *)
(***************************************************************************)
EXTENDS Integers, Sequences, SequencesExt, FiniteSetsExt

CONSTANTS
  MaxSlot,     \* bound: the number of cache slots
  MaxBuffers   \* bound: buffers per slot

ASSUME StartupAssumption == MaxSlot \in Nat /\ MaxBuffers \in Nat

VARIABLES
  num_cache_slot,  \* one per layer, or a single one
  array,  \* the slots bi_traverse works on
  q,      \* intervals <<l, r>> of array, r excluded
  ret     \* priority_to_get_remainder

startupVars == <<num_cache_slot, array, q, ret>>

Candidates == [i \in 1 .. num_cache_slot |-> i - 1]

(* The first two slots come first. *)
InitStartup ==
  /\ num_cache_slot \in 1 .. MaxSlot
  /\ array = Candidates
  /\ ret = SubSeq(Candidates, 1, Min({2, num_cache_slot}))
  /\ q = IF num_cache_slot > 2 THEN <<<<2, num_cache_slot>>>> ELSE << >>

Left == Head(q)[1]
Right == Head(q)[2]
Slice(i) == SubSeq(array, i[1] + 1, i[2])

(* Empty halves are not queued. *)
Halves(mid) == SelectSeq(<<<<Left, mid>>, <<mid + 1, Right>>>>, LAMBDA i : i[1] < i[2])

Split ==
  LET mid == (Left + Right) \div 2
  IN /\ q # << >> /\ Right - Left > 1
     /\ ret' = Append(ret, array[mid + 1])
     /\ q' = Tail(q) \o Halves(mid)
     /\ UNCHANGED <<num_cache_slot, array>>

LastSlot ==
  /\ Len(q) = 1 /\ Right - Left = 1
  /\ ret' = Append(ret, array[Left + 1])
  /\ q' = << >>
  /\ UNCHANGED <<num_cache_slot, array>>

(* Mutation of Rest: what is waiting behind the single slot is forgotten. *)
RestForgotten == Slice(Head(q))

Rest == FlattenSeq([i \in 1 .. Len(q) |-> Slice(q[i])])

(* Mutation of Restart: the single slot is put behind the others. *)
Rotate ==
  /\ Len(q) > 1 /\ Right - Left = 1
  /\ q' = Append(Tail(q), Head(q))
  /\ UNCHANGED <<num_cache_slot, array, ret>>

Restart ==
  /\ Len(q) > 1 /\ Right - Left = 1
  /\ array' = Rest
  /\ q' = <<<<0, Len(Rest)>>>>
  /\ UNCHANGED <<num_cache_slot, ret>>

NextStartup == Split \/ LastSlot \/ Restart

(* per_slot_cache_len for num_buffers: the rest goes to the first slots in ret. *)
SlotLens(num_buffers) ==
  LET n == num_cache_slot
  IN [s \in 0 .. (n - 1) |->
        (num_buffers \div n)
          + Cardinality({i \in 1 .. (num_buffers % n) : i \in DOMAIN ret /\ ret[i] = s})]
-----------------------------------------------------------------------------
(* "Distribute num_buffers across num_cache_slot as evenly as possible" (cache.cpp:63): every *)
(* buffer is given to a slot, no slot has two more than another (CHECK of cache.cpp:89), a slot *)
(* without a buffer, which the first miss in it cannot serve, remains only if there are fewer  *)
(* buffers than slots, and the first slot, whose buffer dummy_physical is and whose length      *)
(* limits num_predict_expert_per_layer (cache.cpp:131), is among the longest.                  *)
BuffersDistributed ==
  q = << >> =>
    \A b \in 0 .. (MaxBuffers * num_cache_slot) :
      LET len == SlotLens(b)
      IN /\ MapThenSumSet(LAMBDA s : len[s], DOMAIN len) = b
         /\ \A s, t \in DOMAIN len : len[s] - len[t] <= 1
         /\ (\A s \in DOMAIN len : len[s] > 0) <=> b >= num_cache_slot
         /\ \A s \in DOMAIN len : len[s] <= len[0]

(* bi_traverse ends: starting again on the rest always leaves less to do. *)
TraversalEnds == <>(q = << >>)
=============================================================================

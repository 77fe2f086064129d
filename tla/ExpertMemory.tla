---------------------------- MODULE ExpertMemory ----------------------------
(***************************************************************************)
(* The memory of the experts: how the parameters of an expert lie in host  *)
(* memory and in a device buffer (the ExpertMemHanlder classes), and what  *)
(* memory the parameters of the model refer to (the ExpertParamWrapper     *)
(* classes), for every pair of implementations.  All buffers are laid out  *)
(* like the largest expert.  A place is <<allocation, offset>>; the        *)
(* allocations of CUDA are external.                                       *)
(***************************************************************************)
EXTENDS Integers, Sequences, FiniteSetsExt

CONSTANTS
  NumExperts,   \* of all layers, numbered from 1 in the order of source_list
  NumParam,     \* num_per_expert_param without the dummies
  MaxBytes,     \* bound: the size of a parameter
  MaxMems,      \* bound: num_buffers
  Granularity,  \* of the driver's allocations
  DummyUnit     \* 16 in the code: dummies have a multiple of it

ASSUME MemoryAssumption ==
  /\ {NumExperts, NumParam, MaxMems, Granularity, DummyUnit} \subseteq Nat \ {0}
  /\ MaxBytes \in Nat

UnifiedImpls == {"tensor_unified", "tensor_global_unified", "cudriver_unified"}

(* map_to of the driver's wrappers CHECKs that the buffer is of its kind. *)
ImplPairs ==
  {<<p, "tensor">> : p \in UnifiedImpls \cup {"tensor", "cudriver"}}
    \cup {<<"cudriver", "cudriver">>, <<"cudriver_unified", "cudriver_unified">>}

VARIABLES
  impl,      \* <<physical_mem_impl, logical_mem_impl>>
  nbytes,    \* host_data: expert -> parameter -> bytes (nbytes and alloc_nbytes)
  mpc,       \* how far the startup is
  num_mems,  \* num_buffers
  mems,      \* buffer -> parameter -> ptr(parameter)
  global_unified_mem_offset,
  held,      \* expert -> its buffer (gpu_data), or 0
  views      \* model_parameter_reference: expert -> parameter -> [ptr, len]

memoryVars ==
  <<impl, nbytes, mpc, num_mems, mems, global_unified_mem_offset, held, views>>

Experts == 1 .. NumExperts
Params == DOMAIN nbytes[1]
Before(sizes, i) == MapThenSumSet(LAMBDA j : sizes[j], 1 .. (i - 1))
Total(sizes) == Before(sizes, Len(sizes) + 1)
RoundUp(n, unit) == ((n + unit - 1) \div unit) * unit

InitMemory ==
  /\ impl \in ImplPairs
  /\ nbytes \in [Experts -> [1 .. NumParam -> 1 .. MaxBytes]]
  /\ mpc = "host" /\ num_mems \in 1 .. MaxMems
  /\ mems = << >> /\ global_unified_mem_offset = 0
  /\ held = [e \in Experts |-> 0]
  /\ views = [e \in Experts |-> << >>]

(* add_all_dummy_expert_params for expert_mem_scale = 1 + halves / 2 (a scale is any float; in *)
(* halves is the bound): the same dummies for every expert, sized after the first one.         *)
Dummies(halves) ==
  LET num == (NumParam * halves + 1) \div 2
      per_dummy == ((Total(nbytes[1]) * halves) \div 2) \div num
  IN [i \in 1 .. num |-> RoundUp(per_dummy, DummyUnit)]

AddDummies ==
  /\ mpc = "host"
  /\ \E halves \in 0 .. 2 :
       nbytes' = IF halves = 0 THEN nbytes
                 ELSE [e \in Experts |-> nbytes[e] \o Dummies(halves)]
  /\ mpc' = "alloc"
  /\ UNCHANGED <<impl, num_mems, mems, global_unified_mem_offset, held, views>>

(* Mutation of Example: the first expert. *)
ExampleFirst == 1

(* max_expert_example: the first of the experts with the most bytes. *)
Example ==
  Min({e \in Experts : \A other \in Experts : Total(nbytes[other]) <= Total(nbytes[e])})

(* The code chooses the example and sizes the tensors' storage by alloc_nbytes, and what the   *)
(* driver allocates by nbytes (model_loader.cpp:183, 201, 229; 241, 261).  The two are the same *)
(* unless an expert is added with an alloc_nbytes of its own, which is not modelled.            *)
Layout == nbytes[Example]
GlobalSize == Total(Layout) * num_mems

(* allocate_like: an allocation per parameter, one per buffer, or one for all buffers. *)
Place(b, i) ==
  CASE impl[1] \in {"tensor", "cudriver"} -> <<<<b, i>>, 0>>
    [] impl[1] \in {"tensor_unified", "cudriver_unified"} -> <<<<b>>, Before(Layout, i)>>
    [] OTHER -> <<<< >>, global_unified_mem_offset + Before(Layout, i)>>

AllocationSize(a) ==
  CASE impl[1] = "tensor" -> Layout[a[2]]
    [] impl[1] = "cudriver" -> RoundUp(Layout[a[2]], Granularity)
    [] impl[1] = "tensor_unified" -> Total(Layout)
    [] impl[1] = "cudriver_unified" -> RoundUp(Total(Layout), Granularity)
    [] OTHER -> GlobalSize

(* Mutation of NextOffset: every buffer starts at the beginning. *)
NextOffsetStays == global_unified_mem_offset

NextOffset == global_unified_mem_offset + Total(Layout)

AllocateLike ==
  /\ mpc = "alloc" /\ Len(mems) < num_mems
  /\ mems' = Append(mems, [i \in Params |-> Place(Len(mems) + 1, i)])
  /\ global_unified_mem_offset' =
       IF impl[1] = "tensor_global_unified" THEN NextOffset ELSE global_unified_mem_offset
  /\ mpc' = IF global_unified_mem_offset' > GlobalSize THEN "aborted" ELSE mpc
  /\ UNCHANGED <<impl, nbytes, num_mems, held, views>>

(* An address range of an expert must be covered by what it is mapped to, or CUDA fails. *)
Mappable(e) ==
  impl[2] = "cudriver" =>
    \A i \in Params : RoundUp(nbytes[e][i], Granularity) <= RoundUp(Layout[i], Granularity)

(* map_to: a tensor takes the shape of the buffer's, an address range keeps the expert's own. *)
View(e, b, i) ==
  CASE impl[2] = "tensor" -> [ptr |-> mems[b][i], len |-> Layout[i]]
    [] impl[2] = "cudriver" -> [ptr |-> <<<<b, i>>, 0>>, len |-> nbytes[e][i]]
    [] OTHER -> [ptr |-> <<<<b>>, Before(nbytes[e], i)>>, len |-> nbytes[e][i]]

MapTo(e, b) == [i \in Params |-> View(e, b, i)]

(* build_logical_expert_param: until it is fetched, an expert refers to the first buffer. *)
MakeLogical ==
  /\ mpc = "alloc" /\ Len(mems) = num_mems
  /\ IF \A e \in Experts : Mappable(e)
       THEN mpc' = "run" /\ views' = [e \in Experts |-> MapTo(e, 1)]
       ELSE mpc' = "aborted" /\ views' = views
  /\ UNCHANGED <<impl, nbytes, num_mems, mems, global_unified_mem_offset, held>>

(* FetchWorker::do_one_task_impl for all chunks: the parameters are unmapped and mapped anew. *)
Fetch(e, b) ==
  /\ mpc = "run" /\ held[e] = 0
  /\ held' = [x \in Experts |-> IF x = e THEN b ELSE IF held[x] = b THEN 0 ELSE held[x]]
  /\ views' = [views EXCEPT ![e] = MapTo(e, b)]
  /\ UNCHANGED <<impl, nbytes, mpc, num_mems, mems, global_unified_mem_offset>>

NextMemory ==
  AddDummies \/ AllocateLike \/ MakeLogical \/ \E e \in Experts, b \in 1 .. num_mems : Fetch(e, b)
-----------------------------------------------------------------------------
(* cudaMemcpyAsync writes the expert's own bytes to ptr(i) of its buffer. *)
Copied(e, i) == [ptr |-> mems[held[e]][i], len |-> nbytes[e][i]]
Within(m) == m.ptr[2] + m.len <= AllocationSize(m.ptr[1])
Disjoint(m, n) ==
  m.ptr[1] # n.ptr[1] \/ m.ptr[2] + m.len <= n.ptr[2] \/ n.ptr[2] + n.len <= m.ptr[2]

(* The experts whose weights are read where they were copied: a tensor needs the shapes of the *)
(* largest expert, a unified address range needs its offsets.                                 *)
Alike(e) ==
  CASE impl[2] = "tensor" -> nbytes[e] = Layout
    [] impl[2] = "cudriver" -> TRUE
    [] OTHER -> \A i \in Params : Before(nbytes[e], i) = Before(Layout, i)

(* The layouts of host, buffer and parameter are computed in three places.  The model reads    *)
(* every parameter where the fetch worker wrote it exactly for the experts that are alike;     *)
(* what is copied for these stays inside its allocation and no two copies overlap; and the     *)
(* global allocation is never exceeded (CHECK of model_loader.cpp:230).                        *)
ReadWhereCopied ==
  LET loaded == {e \in Experts : held[e] # 0 /\ Alike(e)}
      written == {<<e, i>> : e \in loaded, i \in Params}
  IN /\ mpc = "aborted" => impl[2] = "cudriver"
     /\ \A e \in Experts :
          held[e] # 0 => (Alike(e) <=> \A i \in Params : views[e][i] = Copied(e, i))
     /\ \A w \in written : Within(Copied(w[1], w[2]))
     /\ \A w, x \in written : w # x => Disjoint(Copied(w[1], w[2]), Copied(x[1], x[2]))
=============================================================================

---------------------------- MODULE MoeExecution ----------------------------
(***************************************************************************)
(* What the prefetcher promises to the model that runs on top of it: the   *)
(* layers of an iteration are computed in order, every expert a gate       *)
(* activates is computed exactly once, and while an expert is computed the *)
(* device memory its parameters are mapped to holds its own weights.  How  *)
(* weights get there, and which stay there, is left open.                  *)
(***************************************************************************)
EXTENDS Naturals

CONSTANTS NumLayer, ExpertIdx

VARIABLES
  iter, layer,
  open,       \* the gate of the layer has chosen its experts
  pending,    \* chosen experts whose kernels are not launched yet
  running,    \* experts whose kernels are launched and have not ended
  resident    \* experts whose parameters read as their own weights

vars == <<iter, layer, open, pending, running, resident>>

Layer == 0 .. (NumLayer - 1)
Expert == Layer \X ExpertIdx

Init ==
  /\ iter = 0 /\ layer = 0
  /\ open = FALSE
  /\ pending = {} /\ running = {} /\ resident = {}

(* The gate is computed from the output of everything before it. *)
Activate ==
  /\ ~open /\ running = {}
  /\ open' = TRUE
  /\ pending' \in (SUBSET ({layer} \X ExpertIdx)) \ {{}}
  /\ UNCHANGED <<iter, layer, running, resident>>

Launch ==
  \E e \in pending \cap resident :
    /\ pending' = pending \ {e}
    /\ running' = running \cup {e}
    /\ UNCHANGED <<iter, layer, open, resident>>

Finish ==
  \E e \in running :
    /\ running' = running \ {e}
    /\ UNCHANGED <<iter, layer, open, pending, resident>>

CloseLayer ==
  /\ open /\ pending = {}
  /\ open' = FALSE
  /\ layer' = (layer + 1) % NumLayer
  /\ iter' = IF layer' = 0 THEN iter + 1 ELSE iter
  /\ UNCHANGED <<pending, running, resident>>

(* Weights move in and out of device memory, but not those being computed with. *)
Move ==
  /\ resident' \in SUBSET Expert
  /\ running \subseteq resident'
  /\ UNCHANGED <<iter, layer, open, pending, running>>

Next == Activate \/ Launch \/ Finish \/ CloseLayer \/ Move
Spec == Init /\ [][Next]_vars
=============================================================================

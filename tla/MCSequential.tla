----------------------------- MODULE MCSequential -----------------------------
(***************************************************************************)
(* The parts that run within one thread, or before the threads start, or   *)
(* without them, each alone: a behaviour exercises one of them and the     *)
(* others stay as they are.                                                *)
(***************************************************************************)
EXTENDS RingQueue, LinkedList, MinHeap, Startup, Predictors, ExpertMemory, PythonManagers

VARIABLE exercised

Part == {"queue", "list", "heap", "startup", "predictor", "memory", "python"}

(* What the parts that are not exercised are about. *)
OneOption ==
  CHOOSE o \in Options : o.num_layer = 1 /\ o.input_mode = "kMoeLayerLogits"

Init ==
  /\ exercised \in Part
  /\ InitQueue /\ InitList /\ InitHeap
  /\ InitStartup /\ (exercised # "startup" => num_cache_slot = 1)
  /\ IF exercised = "predictor" THEN InitPredictors
     ELSE /\ options = OneOption /\ meta = Configured(OneOption)
          /\ job = [pc |-> "load", layer |-> 0, prompt |-> FALSE, idx |-> 0]
          /\ model = NoModel /\ output = NoOutput /\ posted = << >>
  /\ IF exercised = "memory" THEN InitMemory
     ELSE /\ impl = <<"tensor", "tensor">> /\ nbytes = [e \in Experts |-> <<1>>]
          /\ mpc = "host" /\ num_mems = 1 /\ mems = << >> /\ global_unified_mem_offset = 0
          /\ held = [e \in Experts |-> 0] /\ views = [e \in Experts |-> << >>]
  /\ IF exercised = "python" THEN InitManagers ELSE IdleManagers /\ manager = "lru"

Next ==
  /\ UNCHANGED exercised
  /\ \/ /\ exercised = "queue" /\ NextQueue
        /\ UNCHANGED <<listVars, heapVars, startupVars, predictorVars,
                       memoryVars, managerVars>>
     \/ /\ exercised = "list" /\ NextList
        /\ UNCHANGED <<queueVars, heapVars, startupVars, predictorVars,
                       memoryVars, managerVars>>
     \/ /\ exercised = "heap" /\ NextHeap
        /\ UNCHANGED <<queueVars, listVars, startupVars, predictorVars,
                       memoryVars, managerVars>>
     \/ /\ exercised = "startup" /\ NextStartup
        /\ UNCHANGED <<queueVars, listVars, heapVars, predictorVars,
                       memoryVars, managerVars>>
     \/ /\ exercised = "predictor" /\ NextPredictors
        /\ UNCHANGED <<queueVars, listVars, heapVars, startupVars,
                       memoryVars, managerVars>>
     \/ /\ exercised = "memory" /\ NextMemory
        /\ UNCHANGED <<queueVars, listVars, heapVars, startupVars,
                       predictorVars, managerVars>>
     \/ /\ exercised = "python" /\ NextManagers
        /\ UNCHANGED <<queueVars, listVars, heapVars, startupVars,
                       predictorVars, memoryVars>>

seqVars ==
  <<exercised, queueVars, listVars, heapVars, startupVars, predictorVars, memoryVars,
    managerVars>>

(* The traversal runs to its end; the other parts do what their callers ask for. *)
Spec == Init /\ [][Next]_seqVars /\ WF_seqVars(exercised = "startup" /\ Next)
=============================================================================

------------------------------ MODULE Shutdown ------------------------------
(***************************************************************************)
(* The destructor of PrefetchMngr on top of Prefetcher: when the hook has  *)
(* run its last iteration, it makes the worker threads exit and joins them *)
(* one after the other, while the others still run and still depend on     *)
(* the ones that are gone.                                                 *)
(***************************************************************************)
EXTENDS Prefetcher

VARIABLES
  down,       \* 0: not destroyed yet; k: waits for the k-th thread to end
  exit_mark,  \* the threads whose exit() has been called
  stopped     \* the threads that have left thread_func

shutdownVars == <<down, exit_mark, stopped>>
allVars == <<vars, shutdownVars>>

(* Mutation of ExitOrder: the scheduler goes before the thread that waits for it. *)
ExitOrderScheduleFirst == <<"fetch", "schedule", "unlock", "predict">>

ExitOrder == <<"fetch", "predict", "unlock", "schedule">>
Thread == {"fetch", "predict", "unlock", "schedule"}

InitShutdown == Init /\ down = 0 /\ exit_mark = {} /\ stopped = {}

workVars == <<hookVars, schedVars, cacheVars, expert_status, fetchVars, unlockVars, memVars,
              prefetch_layer_progress, aborted>>

(* A unit of budget for a predict worker that may be waiting for one, then the first exit(). *)
Destroy ==
  /\ hpc = "done" /\ down = 0
  /\ down' = 1 /\ exit_mark' = {ExitOrder[1]}
  /\ budget' = budget + 1
  /\ UNCHANGED <<workVars, predictVars, stopped>>

(* join() returns. *)
Join ==
  /\ down \in 1 .. Len(ExitOrder) /\ ExitOrder[down] \in stopped
  /\ down' = down + 1
  /\ exit_mark' = IF down < Len(ExitOrder) THEN exit_mark \cup {ExitOrder[down + 1]} ELSE exit_mark
  /\ UNCHANGED <<vars, stopped>>

(* Mutation of GivesUp: the loop that waits for budget does not look at the exit mark. *)
NeverGivesUp == FALSE

GivesUp == "predict" \in exit_mark /\ budget = 0

(* The predict worker finds no budget and its exit mark set: the job ends. *)
PredictReturn ==
  /\ ppc = "ready" /\ pnext < pstop
  /\ GivesUp
  /\ pnext' = pstop
  /\ UNCHANGED <<workVars, budget, predict_jobs, ppc, pstop, pexperts, shutdownVars>>

(* Between two handlers.  A task that is queued for the fetch or the unlock worker may or may *)
(* not have been taken from the queue.                                                        *)
MayStop(w) ==
  CASE w = "fetch"    -> fpc # "copy"
    [] w = "predict"  -> ppc = "ready" /\ pnext = pstop
    [] w = "unlock"   -> TRUE
    [] w = "schedule" -> spc = "ready"
MustStop(w) ==
  CASE w = "fetch"    -> fpc = "idle"
    [] w = "unlock"   -> uqueue = << >>
    [] OTHER          -> MayStop(w)

StopThread(w) ==
  /\ w \in exit_mark \ stopped /\ MayStop(w)
  /\ stopped' = stopped \cup {w}
  /\ UNCHANGED <<vars, down, exit_mark>>

Running(w, A) == w \notin stopped /\ A /\ UNCHANGED shutdownVars

NextShutdown ==
  /\ aborted = "none"
  /\ \/ (Hook \/ StreamStep) /\ UNCHANGED shutdownVars
     \/ Running("schedule", Scheduler) \/ Running("fetch", Fetcher)
     \/ Running("unlock", Unlock) \/ Running("predict", Predictor)
     \/ Running("predict", PredictReturn)
     \/ Destroy \/ Join \/ \E w \in Thread : StopThread(w)

(* Every thread is scheduled; one whose exit mark is set sees it at the end of its handler. *)
Works(A) == aborted = "none" /\ A
FairShutdown ==
  /\ WF_allVars(Works(Hook /\ UNCHANGED shutdownVars))
  /\ WF_allVars(Works(StreamStep /\ UNCHANGED shutdownVars))
  /\ WF_allVars(Works(Running("schedule", Scheduler)))
  /\ WF_allVars(Works(Running("fetch", Fetcher)))
  /\ WF_allVars(Works(Running("unlock", Unlock)))
  /\ WF_allVars(Works(Running("predict", Predictor \/ PredictReturn)))
  /\ WF_allVars(Works(Destroy \/ Join))
  /\ \A w \in Thread : WF_allVars(Works(MustStop(w) /\ StopThread(w)))

SpecShutdown == InitShutdown /\ [][NextShutdown]_allVars /\ FairShutdown
-----------------------------------------------------------------------------
(* The destructor returns: no thread it joins waits for one that is already gone, for budget  *)
(* nobody returns, or for an expert nobody releases.                                          *)
DestructorReturns == <>(down = Len(ExitOrder) + 1 \/ aborted # "none")

(* No thread is left without the thread it depends on: a prefetch task that the predict       *)
(* worker waits for, or a victim that the fetch worker waits for, is always still served.     *)
NoOrphanWait ==
  /\ ppc = "submitted" => "schedule" \notin stopped
  /\ fpc = "wait" /\ "fetch" \notin stopped => "unlock" \notin stopped
=============================================================================

-------------------------- MODULE PrefetcherWeights --------------------------
(***************************************************************************)
(* The compute stream reads an expert's own weights: proof for every       *)
(* number of layers, experts, chunks and buffers.                          *)
(*                                                                         *)
(* ComputeReadsOwnWeights is not inductive.  WeightsInv says how it comes  *)
(* about: one job at a time is between the scheduler and the fetch worker  *)
(* (OneJobToken); what that job copies where (CurrentInv); a cached expert's  *)
(* status tells how many of its chunks are there (CachedInv); and the only *)
(* expert that may be in use without owning its buffer is the one the      *)
(* fetch worker still waits for (EvictedInv).  With StreamInv, the experts *)
(* whose kernels have not ended are among those in use.                    *)
(***************************************************************************)
EXTENDS PrefetcherProofs

TokenKind == {"Idle", "FetchDone"}

(* Of an IdleTask, a FetchDoneTask and a busy fetch worker there is at most one. *)
UniqueToken ==
  \A i, j \in 1 .. Len(squeue) : squeue[i] \in TokenKind /\ squeue[j] \in TokenKind => i = j

OneJobToken ==
  /\ UniqueToken
  /\ fpc # "idle" => ~InQueue("Idle") /\ ~InQueue("FetchDone")
  /\ victim # NoExpert => fpc = "wait"

(* A job has been handed to the fetch worker and FetchDoneTask has not ended. *)
InFlight == fpc # "idle" \/ InQueue("FetchDone")

(* The first n chunks of the buffer are those of e. *)
Holds(b, e, n) == \A c \in Chunk : c < n => content[b][c] = e

(* The expert being copied: it owns the buffer, and the chunks before the job's are there. *)
CurrentInv ==
  InFlight =>
    /\ current \in CopyTask
    /\ gpu_data[current.expert] # NoBuffer
    /\ expert_status[current.expert] = "Fetching"
    /\ num_ready[current.expert] = current.start /\ current.start <= current.stop
    /\ victim # NoExpert => current.start = 0 /\ gpu_data[victim] = NoBuffer
    /\ fpc = "copy" \/ InQueue("FetchDone") =>
         mapped[current.expert] = gpu_data[current.expert]
    /\ InQueue("FetchDone") => Holds(gpu_data[current.expert], current.expert, current.stop)

(* An expert that owns a buffer. *)
CachedInv ==
  \A e \in Expert : gpu_data[e] # NoBuffer =>
    /\ num_ready[e] = P => expert_status[e] \in {"Ready", "Launching", "Using"}
    /\ num_ready[e] # P => expert_status[e] = "Fetching"
    /\ num_ready[e] # 0 => mapped[e] = gpu_data[e]
    /\ Holds(gpu_data[e], e, num_ready[e])

(* An expert that owns none. *)
EvictedInv ==
  \A e \in Expert : gpu_data[e] = NoBuffer =>
    /\ num_ready[e] = 0
    /\ expert_status[e] # "Idle" =>
         /\ victim = e
         /\ expert_status[e] \in {"Ready", "Launching", "Using"}
         /\ mapped[e] = gpu_data[current.expert]
         /\ Holds(mapped[e], e, P)

WeightsInv == OneJobToken /\ CurrentInv /\ CachedInv /\ EvictedInv

(* The statuses of an expert that is all there. *)
InUse == {"Ready", "Launching", "Using"}

USE DEF hookVars, schedVars, cacheVars, fetchVars, unlockVars, memVars, predictVars

-----------------------------------------------------------------------------
(* The token in the scheduler's queue, under each way the queue changes. *)
LEMMA TokenAppend ==
  ASSUME squeue \in Seq(Kind), UniqueToken, NEW k \in Kind \ TokenKind, squeue' = Append(squeue, k)
  PROVE  UniqueToken' /\ \A kind \in TokenKind : InQueue(kind)' => InQueue(kind)
<1>1. /\ Len(squeue) \in Nat /\ Len(squeue') = Len(squeue) + 1
      /\ \A i \in 1 .. Len(squeue) : squeue'[i] = squeue[i]
      /\ squeue'[Len(squeue) + 1] = k
  BY Appended
<1> QED BY <1>1 DEF UniqueToken, InQueue

LEMMA TokenTail ==
  ASSUME squeue \in Seq(Kind), squeue # << >>, UniqueToken, squeue' = Tail(squeue)
  PROVE  /\ UniqueToken' /\ \A kind \in TokenKind : InQueue(kind)' => InQueue(kind)
         /\ Head(squeue) \in TokenKind => \A kind \in TokenKind : ~InQueue(kind)'
<1>1. /\ Len(squeue) \in Nat \ {0} /\ Len(squeue') = Len(squeue) - 1
      /\ \A i \in 1 .. Len(squeue') : squeue'[i] = squeue[i + 1]
      /\ Head(squeue) = squeue[1]
  BY HeadTail
<1>2. UniqueToken' /\ \A kind \in TokenKind : InQueue(kind)' => InQueue(kind)
  BY <1>1 DEF UniqueToken, InQueue
<1>3. ASSUME Head(squeue) \in TokenKind, NEW kind \in TokenKind, InQueue(kind)'
      PROVE  FALSE
  <2>1. PICK i \in 1 .. Len(squeue') : squeue'[i] = kind
    BY <1>3 DEF InQueue
  <2>2. i + 1 \in 1 .. Len(squeue) /\ 1 \in 1 .. Len(squeue) /\ squeue[i + 1] = kind
    BY <1>1, <2>1
  <2> QED BY <1>1, <1>3, <2>2 DEF UniqueToken
<1> QED BY <1>2, <1>3

LEMMA TokenIdleAgain ==
  ASSUME squeue \in Seq(Kind), squeue # << >>, UniqueToken, Head(squeue) \in TokenKind,
         squeue' = IdleAgain
  PROVE  UniqueToken' /\ ~InQueue("FetchDone")'
<1>1. /\ Len(squeue) \in Nat \ {0} /\ Tail(squeue) \in Seq(Kind)
      /\ Len(Tail(squeue)) = Len(squeue) - 1
      /\ \A i \in 1 .. Len(Tail(squeue)) : Tail(squeue)[i] = squeue[i + 1]
      /\ Head(squeue) = squeue[1]
  BY HeadTail
<1>2. \A i \in 1 .. Len(Tail(squeue)) : Tail(squeue)[i] \notin TokenKind
  <2> SUFFICES ASSUME NEW i \in 1 .. Len(Tail(squeue)), Tail(squeue)[i] \in TokenKind
               PROVE  FALSE
    OBVIOUS
  <2>1. i + 1 \in 1 .. Len(squeue) /\ 1 \in 1 .. Len(squeue) /\ squeue[i + 1] \in TokenKind
    BY <1>1
  <2> QED BY <1>1, <2>1 DEF UniqueToken
<1>3. /\ Len(squeue') = Len(Tail(squeue)) + 1
      /\ \A i \in 1 .. Len(Tail(squeue)) : squeue'[i] = Tail(squeue)[i]
      /\ squeue'[Len(Tail(squeue)) + 1] = "Idle"
  BY <1>1, Appended DEF IdleAgain, Kind
<1> QED BY <1>1, <1>2, <1>3 DEF UniqueToken, InQueue, TokenKind

LEMMA TokenFetchDone ==
  ASSUME squeue \in Seq(Kind), ~InQueue("Idle"), ~InQueue("FetchDone"),
         squeue' = Append(squeue, "FetchDone")
  PROVE  UniqueToken' /\ ~InQueue("Idle")' /\ InQueue("FetchDone")'
<1>1. /\ Len(squeue) \in Nat /\ Len(squeue') = Len(squeue) + 1
      /\ \A i \in 1 .. Len(squeue) : squeue'[i] = squeue[i]
      /\ squeue'[Len(squeue) + 1] = "FetchDone"
  BY Appended DEF Kind
<1> QED BY <1>1 DEF UniqueToken, InQueue, TokenKind

-----------------------------------------------------------------------------
(* Steps that copy nothing and move no buffer. *)
LEMMA WeightsFrame ==
  ASSUME TypeInv, WeightsInv,
         UNCHANGED <<gpu_data, num_ready, mapped, content, fpc, victim>>,
         UniqueToken', \A kind \in TokenKind : InQueue(kind)' => InQueue(kind),
         InFlight' => /\ current' \in CopyTask
                      /\ current'.expert = current.expert
                      /\ current'.start = current.start /\ current'.stop = current.stop,
         \A e \in Expert : \/ expert_status'[e] = expert_status[e]
                           \/ expert_status[e] \in InUse /\ expert_status'[e] \in InUse
  PROVE  WeightsInv'
<1>1. OneJobToken'
  BY DEF WeightsInv, OneJobToken, TokenKind
<1>2. InFlight' => InFlight
  BY DEF InFlight, TokenKind
<1>3. CurrentInv'
  <2> SUFFICES ASSUME InFlight' PROVE CurrentInv'
    BY DEF CurrentInv
  <2>1. InFlight /\ current.expert \in Expert
    BY <1>2 DEF CurrentInv, WeightsInv, CopyTask
  <2>2. expert_status'[current.expert] = "Fetching"
    BY <2>1 DEF InUse, WeightsInv, CurrentInv
  <2> QED BY <2>1, <2>2 DEF WeightsInv, CurrentInv, TokenKind, Holds
<1>4. CachedInv'
  BY DEF WeightsInv, CachedInv, InUse, Holds
<1>5. EvictedInv'
  <2> SUFFICES ASSUME NEW e \in Expert, gpu_data[e] = NoBuffer
               PROVE  /\ num_ready[e] = 0
                      /\ expert_status'[e] # "Idle" =>
                           /\ victim = e
                           /\ expert_status'[e] \in {"Ready", "Launching", "Using"}
                           /\ mapped[e] = gpu_data[current'.expert]
                           /\ \A c \in Chunk : c < P => content[mapped[e]][c] = e
    BY DEF EvictedInv, Holds
  <2>1. num_ready[e] = 0
    BY DEF WeightsInv, EvictedInv
  <2>2. ASSUME expert_status'[e] # "Idle"
        PROVE  /\ victim = e
               /\ expert_status'[e] \in {"Ready", "Launching", "Using"}
               /\ mapped[e] = gpu_data[current'.expert]
               /\ \A c \in Chunk : c < P => content[mapped[e]][c] = e
    <3>1. expert_status[e] # "Idle"
      BY <2>2 DEF InUse
    <3>2. /\ victim = e /\ expert_status[e] \in InUse /\ mapped[e] = gpu_data[current.expert]
          /\ \A c \in Chunk : c < P => content[mapped[e]][c] = e
      BY <3>1 DEF WeightsInv, EvictedInv, InUse, Holds
    <3>3. InFlight'
      BY <3>2, ConstantsAssumption DEF WeightsInv, OneJobToken, InFlight
    <3> QED BY <3>2, <3>3 DEF InUse
  <2> QED BY <2>1, <2>2
<1> QED BY <1>1, <1>3, <1>4, <1>5 DEF WeightsInv

(* The hook thread launches, but moves nothing. *)
LEMMA HookWeights == TypeInv /\ WeightsInv /\ Hook => WeightsInv'
<1> SUFFICES ASSUME TypeInv, WeightsInv, Hook PROVE WeightsInv'
  OBVIOUS
<1>t. squeue \in Seq(Kind) /\ UniqueToken /\ current \in CopyTask \cup {NoTask}
  BY DEF TypeInv, TypeOK, WeightsInv, OneJobToken, Kind
<1>c. InFlight => current \in CopyTask
  BY DEF WeightsInv, CurrentInv
<1>f. (UNCHANGED <<fpc>> /\ \A kind \in TokenKind : InQueue(kind)' => InQueue(kind)) =>
        (InFlight' => InFlight)
  BY DEF InFlight, TokenKind
<1>1. UniqueToken' /\ \A kind \in TokenKind : InQueue(kind)' => InQueue(kind)
  <2>1. CASE squeue' = squeue
    BY <2>1, <1>t DEF UniqueToken, InQueue
  <2>2. ASSUME NEW k \in Kind \ TokenKind, squeue' = Append(squeue, k)
        PROVE  UniqueToken' /\ \A kind \in TokenKind : InQueue(kind)' => InQueue(kind)
    BY <2>2, <1>t, TokenAppend
  <2>3. "Preempt" \in Kind \ TokenKind /\ "PreemptOne" \in Kind \ TokenKind
    BY DEF Kind, TokenKind
  <2> QED BY <2>1, <2>2, <2>3 DEF Hook, HookStart, HookReportLayer, HookReportExpert, HookExpertDone,
                   HookLayerDone
<1>2. UNCHANGED <<gpu_data, num_ready, mapped, content, fpc, victim, current>>
  BY DEF Hook, HookStart, HookReportLayer, HookReportExpert, HookExpertDone, HookLayerDone
<1>3. \A e \in Expert : \/ expert_status'[e] = expert_status[e]
                        \/ expert_status[e] \in InUse /\ expert_status'[e] \in InUse
  <2>1. CASE HookExpertDone
    BY <2>1 DEF HookExpertDone, InUse, TypeInv, TypeOK
  <2>2. CASE UNCHANGED expert_status
    BY <2>2
  <2> QED BY <2>1, <2>2 DEF Hook, HookStart, HookReportLayer, HookReportExpert, HookLayerDone
<1> QED BY <1>1, <1>2, <1>3, <1>c, <1>f, WeightsFrame

(* preempt_one_expert launches what is there, or promotes the copy in flight. *)
LEMMA PreemptExpertStatus ==
  ASSUME TypeInv, NEW e \in Expert, NEW behind, NEW line, PreemptExpert(e, behind, line)
  PROVE  /\ \A f \in Expert : \/ expert_status'[f] = expert_status[f]
                              \/ expert_status[f] \in InUse /\ expert_status'[f] \in InUse
         /\ current \in CopyTask => /\ current' \in CopyTask
                                    /\ current'.expert = current.expert
                                    /\ current'.start = current.start
                                    /\ current'.stop = current.stop
<1>1. CASE UNCHANGED <<current, expert_status>>
  BY <1>1
<1>2. CASE CheckedTransfer(e, "Ready", "Launching", line) /\ UNCHANGED current
  BY <1>2 DEF CheckedTransfer, Transferred, InUse, TypeInv, TypeOK
<1>3. CASE current' = [current EXCEPT !.is_precise = TRUE] /\ UNCHANGED expert_status
  BY <1>3 DEF CopyTask
<1> QED BY <1>1, <1>2, <1>3 DEF PreemptExpert, AddPrecise

(* The handlers of the scheduler that pop no job. *)
LEMMA PreemptWeights ==
  TypeInv /\ WeightsInv
    /\ (SchedPreempt \/ SchedPreemptExpert \/ SchedPreemptEnd \/ SchedPreemptOne
          \/ SchedPrefetchLayer \/ SchedIdleAgain)
    => WeightsInv'
<1> SUFFICES ASSUME TypeInv, WeightsInv,
                    \/ SchedPreempt \/ SchedPreemptExpert \/ SchedPreemptEnd
                    \/ SchedPreemptOne \/ SchedPrefetchLayer \/ SchedIdleAgain
             PROVE  WeightsInv'
  OBVIOUS
<1>t. squeue \in Seq(Kind) /\ UniqueToken
  BY DEF TypeInv, TypeOK, WeightsInv, OneJobToken, Kind
<1>c. InFlight => current \in CopyTask
  BY DEF WeightsInv, CurrentInv
<1>f. (UNCHANGED <<fpc>> /\ \A kind \in TokenKind : InQueue(kind)' => InQueue(kind)) =>
        (InFlight' => InFlight)
  BY DEF InFlight, TokenKind
<1>1. UniqueToken' /\ \A kind \in TokenKind : InQueue(kind)' => InQueue(kind)
  <2>1. CASE squeue' = squeue
    BY <2>1, <1>t DEF UniqueToken, InQueue
  <2>2. CASE squeue # << >> /\ squeue' = Tail(squeue)
    BY <2>2, <1>t, TokenTail
  <2>3. CASE SchedIdleAgain
    <3>1. squeue # << >> /\ Head(squeue) = "Idle" /\ squeue' = IdleAgain
      BY <2>3 DEF SchedIdleAgain, Take
    <3>2. InQueue("Idle")
      BY <3>1, <1>t DEF InQueue
    <3> QED BY <3>1, <3>2, <1>t, TokenIdleAgain DEF TokenKind
  <2> QED BY <2>1, <2>2, <2>3 DEF SchedPreempt, SchedPreemptExpert, SchedPreemptEnd,
            SchedPreemptOne, SchedPrefetchLayer, Take
<1>2. UNCHANGED <<gpu_data, num_ready, mapped, content, fpc, victim>>
  BY DEF SchedPreempt, SchedPreemptExpert, SchedPreemptEnd, SchedPreemptOne,
         SchedPrefetchLayer, SchedIdleAgain
<1>3. /\ \A e \in Expert : \/ expert_status'[e] = expert_status[e]
                           \/ expert_status[e] \in InUse /\ expert_status'[e] \in InUse
      /\ current \in CopyTask => /\ current' \in CopyTask
                                 /\ current'.expert = current.expert
                                 /\ current'.start = current.start
                                 /\ current'.stop = current.stop
  <2>1. CASE SchedPreemptExpert
    <3>1. <<layer, experts[sidx]>> \in Expert
      BY <2>1 DEF TypeInv, TypeOK, SchedPreemptExpert, Expert
    <3> QED BY <2>1, <3>1, PreemptExpertStatus DEF SchedPreemptExpert
  <2>2. CASE SchedPreemptOne
    <3>1. InQueue("PreemptOne")
      BY <2>2, TakeInQueue, <1>t DEF SchedPreemptOne
    <3>2. HookExpert \in Expert
      BY <3>1 DEF TypeInv, TypeOK, IndexInv, HookExpert, Expert
    <3> QED BY <2>2, <3>2, PreemptExpertStatus DEF SchedPreemptOne
  <2>3. CASE UNCHANGED <<current, expert_status>>
    BY <2>3
  <2> QED BY <2>1, <2>2, <2>3 DEF SchedPreempt, SchedPreemptEnd, SchedPrefetchLayer,
            SchedIdleAgain
<1> QED BY <1>1, <1>2, <1>3, <1>c, <1>f, WeightsFrame

(* FetchDoneTask counts the chunks that have been copied. *)
LEMMA FetchDoneWeights == TypeInv /\ BuffersPartitioned /\ WeightsInv /\ SchedFetchDone => WeightsInv'
<1> SUFFICES ASSUME TypeInv, BuffersPartitioned, WeightsInv, SchedFetchDone PROVE WeightsInv'
  OBVIOUS
<1> DEFINE e == current.expert
<1>p. P \in Nat \ {0}
  BY ConstantsAssumption DEF P
<1>t. squeue \in Seq(Kind) /\ UniqueToken /\ squeue # << >> /\ Head(squeue) = "FetchDone"
  BY DEF TypeInv, TypeOK, WeightsInv, OneJobToken, Kind, SchedFetchDone, Take
<1>1. InQueue("FetchDone")
  BY <1>t DEF InQueue
<1>2. fpc = "idle" /\ victim = NoExpert
  BY <1>1 DEF WeightsInv, OneJobToken
<1>3. UniqueToken' /\ ~InQueue("FetchDone")'
  BY <1>t, TokenIdleAgain DEF SchedFetchDone, TokenKind
<1>4. /\ e \in Expert /\ current.stop \in 0 .. P
      /\ gpu_data[e] # NoBuffer /\ expert_status[e] = "Fetching"
      /\ mapped[e] = gpu_data[e] /\ Holds(gpu_data[e], e, current.stop)
  BY <1>1 DEF WeightsInv, CurrentInv, InFlight, CopyTask
<1>5. /\ num_ready' = [num_ready EXCEPT ![e] = current.stop]
      /\ UNCHANGED <<gpu_data, mapped, content, fpc, victim>>
  BY DEF SchedFetchDone
<1>6. expert_status' = IF current.stop = P THEN [expert_status EXCEPT ![e] = FetchedStatus]
                       ELSE expert_status
  BY <1>4 DEF SchedFetchDone, CheckedTransfer, Transferred
<1>7. OneJobToken' /\ ~InFlight'
  BY <1>2, <1>3, <1>5 DEF OneJobToken, InFlight
<1>8. CachedInv'
  <2> SUFFICES ASSUME NEW f \in Expert, gpu_data[f] # NoBuffer
               PROVE  /\ num_ready'[f] = P => expert_status'[f] \in {"Ready", "Launching", "Using"}
                      /\ num_ready'[f] # P => expert_status'[f] = "Fetching"
                      /\ num_ready'[f] # 0 => mapped[f] = gpu_data[f]
                      /\ Holds(gpu_data[f], f, num_ready'[f])
    BY <1>5 DEF CachedInv, Holds
  <2>1. CASE f = e
    BY <2>1, <1>4, <1>5, <1>6 DEF FetchedStatus, TypeInv, TypeOK
  <2>2. CASE f # e
    <3>1. num_ready'[f] = num_ready[f] /\ expert_status'[f] = expert_status[f]
      BY <2>2, <1>5, <1>6 DEF TypeInv, TypeOK
    <3> QED BY <3>1 DEF WeightsInv, CachedInv
  <2> QED BY <2>1, <2>2
<1>9. EvictedInv'
  <2> SUFFICES ASSUME NEW f \in Expert, gpu_data[f] = NoBuffer
               PROVE  num_ready'[f] = 0 /\ expert_status'[f] = "Idle"
    BY <1>5 DEF EvictedInv
  <2>1. f # e
    BY <1>4
  <2>2. num_ready'[f] = num_ready[f] /\ expert_status'[f] = expert_status[f]
    BY <2>1, <1>5, <1>6 DEF TypeInv, TypeOK
  <2>3. f # NoExpert
    BY ConstantsAssumption
  <2> QED BY <2>2, <2>3, <1>2 DEF WeightsInv, EvictedInv
<1> QED BY <1>7, <1>8, <1>9 DEF WeightsInv, CurrentInv

(* When the scheduler pops a job, nothing is being copied and no evicted expert is in use. *)
LEMMA IdleQuiet ==
  ASSUME TypeInv, WeightsInv, Take("Idle")
  PROVE  /\ fpc = "idle" /\ victim = NoExpert /\ ~InFlight
         /\ squeue \in Seq(Kind) /\ UniqueToken
         /\ squeue # << >> /\ Head(squeue) \in TokenKind
         /\ \A e \in Expert : gpu_data[e] = NoBuffer => expert_status[e] = "Idle"
<1>t. squeue \in Seq(Kind) /\ UniqueToken /\ squeue # << >> /\ Head(squeue) = "Idle"
  BY DEF TypeInv, TypeOK, WeightsInv, OneJobToken, Kind, Take
<1>1. InQueue("Idle")
  BY <1>t DEF InQueue
<1>2. fpc = "idle" /\ victim = NoExpert
  BY <1>1 DEF WeightsInv, OneJobToken
<1>3. ~InQueue("FetchDone")
  <2> SUFFICES ASSUME InQueue("FetchDone") PROVE FALSE
    OBVIOUS
  <2>1. PICK i \in 1 .. Len(squeue) : squeue[i] = "FetchDone"
    BY DEF InQueue
  <2>2. 1 \in 1 .. Len(squeue) /\ squeue[1] = "Idle"
    BY <1>t, <2>1
  <2> QED BY <1>t, <2>1, <2>2 DEF UniqueToken, TokenKind
<1>4. \A e \in Expert : e # NoExpert
  BY ConstantsAssumption
<1> QED BY <1>t, <1>2, <1>3, <1>4 DEF InFlight, TokenKind, WeightsInv, EvictedInv

(* A miss that takes an unused buffer. *)
LEMMA MissUnusedWeights ==
  ASSUME TypeInv, BuffersPartitioned, WeightsInv, Take("Idle"), NEW t \in CopyTask,
         gpu_data[t.expert] = NoBuffer, t.start = 0, num_ready[t.expert] = 0,
         UNCHANGED memVars, TakeUnused(t.expert), Fetch(t, NoExpert)
  PROVE  WeightsInv'
<1> DEFINE e == t.expert
           b == <<SlotOf(e), unused_mems[SlotOf(e)]>>
<1>e. e \in Expert /\ 0 <= t.stop
  BY DEF CopyTask
<1>p. P \in Nat \ {0}
  BY ConstantsAssumption DEF P
<1>q. /\ fpc = "idle" /\ victim = NoExpert /\ expert_status[e] = "Idle"
      /\ squeue \in Seq(Kind) /\ UniqueToken /\ squeue # << >> /\ Head(squeue) \in TokenKind
      /\ \A f \in Expert : gpu_data[f] = NoBuffer => expert_status[f] = "Idle"
  BY <1>e, IdleQuiet
<1>1. UniqueToken' /\ ~InQueue("Idle")' /\ ~InQueue("FetchDone")'
  BY <1>q, TokenTail DEF Fetch, TokenKind
<1>2. /\ gpu_data' = [gpu_data EXCEPT ![e] = b]
      /\ num_ready' = num_ready /\ mapped' = mapped /\ content' = content
      /\ expert_status' = [expert_status EXCEPT ![e] = "Fetching"]
      /\ current' = t /\ fpc' = "wait" /\ victim' = NoExpert
  BY <1>q DEF TakeUnused, CheckedTransfer, Transferred, Fetch
<1>3. b # NoBuffer
  <2>1. SlotOf(e) \in Slot
    BY <1>e, SlotOfType
  <2>2. /\ unused_mems[SlotOf(e)] \in Nat /\ unused_mems[SlotOf(e)] > 0
        /\ SlotLen[SlotOf(e)] \in Nat
        /\ unused_mems[SlotOf(e)] <= SlotLen[SlotOf(e)]
    BY <2>1, ConstantsAssumption DEF TypeInv, TypeOK, IndexInv, TakeUnused
  <2>3. b \in Buffer
    BY <2>1, <2>2 DEF Buffer
  <2> QED BY <2>3, ConstantsAssumption
<1>4. OneJobToken'
  BY <1>1, <1>2 DEF OneJobToken
<1>5. CurrentInv'
  BY <1>1, <1>2, <1>3, <1>e DEF CurrentInv, TypeInv, TypeOK
<1>6. CachedInv'
  <2> SUFFICES ASSUME NEW f \in Expert, gpu_data'[f] # NoBuffer
               PROVE  /\ num_ready[f] = P => expert_status'[f] \in {"Ready", "Launching", "Using"}
                      /\ num_ready[f] # P => expert_status'[f] = "Fetching"
                      /\ num_ready[f] # 0 => mapped[f] = gpu_data'[f]
                      /\ \A c \in Chunk : c < num_ready[f] => content[gpu_data'[f]][c] = f
    BY <1>2 DEF CachedInv, Holds
  <2>1. CASE f = e
    BY <2>1, <1>2, <1>e, <1>p DEF Chunk, TypeInv, TypeOK
  <2>2. CASE f # e
    <3>1. gpu_data'[f] = gpu_data[f] /\ expert_status'[f] = expert_status[f]
      BY <2>2, <1>2 DEF TypeInv, TypeOK
    <3> QED BY <3>1 DEF WeightsInv, CachedInv, Holds
  <2> QED BY <2>1, <2>2
<1>7. EvictedInv'
  <2> SUFFICES ASSUME NEW f \in Expert, gpu_data'[f] = NoBuffer
               PROVE  num_ready[f] = 0 /\ expert_status'[f] = "Idle"
    BY <1>2 DEF EvictedInv
  <2>1. f # e
    BY <1>2, <1>3 DEF TypeInv, TypeOK
  <2>2. gpu_data'[f] = gpu_data[f] /\ expert_status'[f] = expert_status[f]
    BY <2>1, <1>2 DEF TypeInv, TypeOK
  <2> QED BY <2>2, <1>q DEF WeightsInv, EvictedInv
<1> QED BY <1>4, <1>5, <1>6, <1>7 DEF WeightsInv

(* A miss that evicts: an expert in use becomes the one the fetch worker waits for. *)
LEMMA MissEvictWeights ==
  ASSUME TypeInv, BuffersPartitioned, WeightsInv, Take("Idle"), NEW t \in CopyTask,
         gpu_data[t.expert] = NoBuffer, t.start = 0, num_ready[t.expert] = 0,
         UNCHANGED memVars, NEW v \in InSlot(t.expert), Evict(t.expert, v),
         Fetch(t, IF Pinned(v) THEN v ELSE NoExpert)
  PROVE  WeightsInv'
<1> DEFINE e == t.expert
           b == gpu_data[v]
<1>e. e \in Expert /\ 0 <= t.stop
  BY DEF CopyTask
<1>p. P \in Nat \ {0}
  BY ConstantsAssumption DEF P
<1>q. /\ fpc = "idle" /\ victim = NoExpert /\ expert_status[e] = "Idle"
      /\ squeue \in Seq(Kind) /\ UniqueToken /\ squeue # << >> /\ Head(squeue) \in TokenKind
      /\ \A f \in Expert : gpu_data[f] = NoBuffer => expert_status[f] = "Idle"
  BY <1>e, IdleQuiet
<1>v. v \in Expert /\ v # e /\ b # NoBuffer /\ prefetched_experts[v] = b
  BY DEF InSlot, IsInCache, BuffersPartitioned
<1>1. UniqueToken' /\ ~InQueue("Idle")' /\ ~InQueue("FetchDone")'
  BY <1>q, TokenTail DEF Fetch, TokenKind
<1>2. /\ gpu_data' = [gpu_data EXCEPT ![v] = NoBuffer, ![e] = b]
      /\ num_ready' = [num_ready EXCEPT ![v] = 0]
      /\ mapped' = mapped /\ content' = content
      /\ expert_status' = [expert_status EXCEPT
                             ![v] = IF Pinned(v) THEN expert_status[v] ELSE "Idle",
                             ![e] = "Fetching"]
      /\ current' = t /\ fpc' = "wait" /\ victim' = IF Pinned(v) THEN v ELSE NoExpert
  BY <1>v DEF Evict, WithoutChunks, Fetch
<1>m. mapped' = mapped /\ content' = content /\ current' = t
  BY <1>2
<1>3. /\ gpu_data'[e] = b /\ gpu_data'[v] = NoBuffer
      /\ num_ready'[e] = 0 /\ num_ready'[v] = 0
      /\ expert_status'[e] = "Fetching"
      /\ expert_status'[v] = IF Pinned(v) THEN expert_status[v] ELSE "Idle"
  BY <1>2, <1>v, <1>e DEF TypeInv, TypeOK
<1>4. ASSUME NEW f \in Expert, f # e, f # v
      PROVE  /\ gpu_data'[f] = gpu_data[f] /\ num_ready'[f] = num_ready[f]
             /\ expert_status'[f] = expert_status[f]
  BY <1>4, <1>2 DEF TypeInv, TypeOK
<1>5. OneJobToken'
  BY <1>1, <1>2 DEF OneJobToken
<1>6. CurrentInv'
  BY <1>1, <1>2, <1>3, <1>v, <1>e DEF CurrentInv
<1>7. CachedInv'
  <2> SUFFICES ASSUME NEW f \in Expert, gpu_data'[f] # NoBuffer
               PROVE  /\ num_ready'[f] = P => expert_status'[f] \in {"Ready", "Launching", "Using"}
                      /\ num_ready'[f] # P => expert_status'[f] = "Fetching"
                      /\ num_ready'[f] # 0 => mapped[f] = gpu_data'[f]
                      /\ \A c \in Chunk : c < num_ready'[f] => content[gpu_data'[f]][c] = f
    BY <1>m DEF CachedInv, Holds
  <2>1. CASE f = e
    BY <2>1, <1>3, <1>p DEF Chunk
  <2>2. CASE f # e
    BY <2>2, <1>3, <1>4 DEF WeightsInv, CachedInv, Holds
  <2> QED BY <2>1, <2>2
<1>8. EvictedInv'
  <2> SUFFICES ASSUME NEW f \in Expert, gpu_data'[f] = NoBuffer
               PROVE  /\ num_ready'[f] = 0
                      /\ expert_status'[f] # "Idle" =>
                           /\ victim' = f
                           /\ expert_status'[f] \in {"Ready", "Launching", "Using"}
                           /\ mapped[f] = gpu_data'[t.expert]
                           /\ \A c \in Chunk : c < P => content[mapped[f]][c] = f
    BY <1>m DEF EvictedInv, Holds
  <2>1. f # e
    BY <1>3, <1>v
  <2>2. CASE f # v
    BY <2>1, <2>2, <1>4, <1>q DEF WeightsInv, EvictedInv
  <2>3. CASE f = v /\ ~Pinned(v)
    BY <2>3, <1>3
  <2>4. CASE f = v /\ Pinned(v)
    <3>1. expert_status[v] \in {"Launching", "Using"}
      BY <2>4 DEF Pinned
    <3>2. num_ready[v] = P /\ mapped[v] = b /\ \A c \in Chunk : c < P => content[b][c] = v
      BY <3>1, <1>v, <1>p DEF WeightsInv, CachedInv, Holds
    <3> QED BY <2>4, <3>1, <3>2, <1>2, <1>3
  <2> QED BY <2>2, <2>3, <2>4
<1> QED BY <1>5, <1>6, <1>7, <1>8 DEF WeightsInv

(* A task whose chunks are there. *)
LEMMA DuplicateWeights ==
  ASSUME TypeInv, WeightsInv, Take("Idle"), NEW t \in CopyTask, UNCHANGED memVars,
         SendDuplicate(t)
  PROVE  WeightsInv'
<1>q. /\ fpc = "idle" /\ squeue \in Seq(Kind) /\ UniqueToken
      /\ squeue # << >> /\ Head(squeue) \in TokenKind /\ InQueue("Idle")
  BY IdleQuiet DEF Take, InQueue
<1>1. UniqueToken' /\ ~InQueue("FetchDone")'
  BY <1>q, TokenIdleAgain DEF SendDuplicate
<1>2. UNCHANGED <<gpu_data, num_ready, mapped, content, fpc, victim>>
  BY DEF SendDuplicate
<1>3. ~InFlight'
  BY <1>q, <1>1, <1>2 DEF InFlight
<1>4. \A e \in Expert : \/ expert_status'[e] = expert_status[e]
                        \/ expert_status[e] \in InUse /\ expert_status'[e] \in InUse
  BY DEF SendDuplicate, Transferred, InUse, TypeInv, TypeOK
<1>5. \A kind \in TokenKind : InQueue(kind)' => InQueue(kind)
  BY <1>q, <1>1 DEF TokenKind
<1> QED BY <1>1, <1>2, <1>3, <1>4, <1>5, WeightsFrame

(* A task for the chunks that are missing. *)
LEMMA RestWeights ==
  ASSUME TypeInv, WeightsInv, Take("Idle"), NEW t \in CopyTask, UNCHANGED memVars, SendRest(t)
  PROVE  WeightsInv'
<1> DEFINE e == t.expert
<1>e. e \in Expert /\ num_ready[e] \in 0 .. P /\ t.stop \in 0 .. P /\ P \in Nat
  BY ConstantsAssumption DEF CopyTask, TypeInv, TypeOK, P
<1>q. /\ fpc = "idle" /\ victim = NoExpert /\ squeue \in Seq(Kind) /\ UniqueToken
      /\ squeue # << >> /\ Head(squeue) \in TokenKind
      /\ \A f \in Expert : gpu_data[f] = NoBuffer => expert_status[f] = "Idle"
  BY IdleQuiet
<1>1. UniqueToken' /\ ~InQueue("Idle")' /\ ~InQueue("FetchDone")'
  BY <1>q, TokenTail DEF SendRest, Fetch, TokenKind
<1>2. /\ UNCHANGED <<gpu_data, num_ready, mapped, content, expert_status>>
      /\ current' = [t EXCEPT !.start = num_ready[e]] /\ fpc' = "wait" /\ victim' = NoExpert
  BY DEF SendRest, Fetch
<1>3. /\ current' \in CopyTask /\ current'.expert = e
      /\ current'.start = num_ready[e] /\ current'.stop = t.stop
  BY <1>2, <1>e DEF CopyTask
<1>4. gpu_data[e] # NoBuffer /\ num_ready[e] < t.stop
  BY DEF SendRest
<1>5. expert_status[e] = "Fetching"
  BY <1>4, <1>e DEF WeightsInv, CachedInv
<1>6. OneJobToken'
  BY <1>1, <1>2 DEF OneJobToken
<1>7. CurrentInv'
  BY <1>1, <1>2, <1>3, <1>4, <1>5, <1>e DEF CurrentInv
<1>8. CachedInv'
  BY <1>2 DEF WeightsInv, CachedInv, Holds
<1>9. EvictedInv'
  BY <1>2, <1>q DEF WeightsInv, EvictedInv
<1> QED BY <1>6, <1>7, <1>8, <1>9 DEF WeightsInv

(* A failed CHECK. *)
LEMMA SendAbortWeights ==
  ASSUME TypeInv, WeightsInv, UNCHANGED memVars,
         UNCHANGED <<squeue, current, cacheVars, expert_status, fetchVars>>
  PROVE  WeightsInv'
BY DEF WeightsInv, OneJobToken, UniqueToken, InQueue, CurrentInv, InFlight, CachedInv, EvictedInv,
       Holds

(* send_one_job and IdleTask. *)
LEMMA SendWeights ==
  ASSUME TypeInv, BuffersPartitioned, WeightsInv, Take("Idle"), NEW t \in CopyTask,
         UNCHANGED memVars, SendOneJob(t)
  PROVE  WeightsInv'
<1>1. CASE SendMissed(t)
  <2>1. CASE UNCHANGED <<squeue, current, cacheVars, expert_status, fetchVars>>
    BY <2>1, SendAbortWeights
  <2>2. CASE ~(t.start # 0 \/ num_ready[t.expert] # 0)
    <3>1. CASE TakeUnused(t.expert) /\ Fetch(t, NoExpert)
      BY <1>1, <2>2, <3>1, MissUnusedWeights DEF SendMissed
    <3>2. ASSUME NEW v \in InSlot(t.expert), Evict(t.expert, v),
                 Fetch(t, IF Pinned(v) THEN v ELSE NoExpert)
          PROVE  WeightsInv'
      BY <1>1, <2>2, <3>2, MissEvictWeights DEF SendMissed
    <3> QED BY <1>1, <2>2, <3>1, <3>2 DEF SendMissed
  <2> QED BY <1>1, <2>1, <2>2 DEF SendMissed
<1>2. CASE SendDuplicate(t)
  BY <1>2, DuplicateWeights
<1>3. CASE SendRest(t)
  BY <1>3, RestWeights
<1> QED BY <1>1, <1>2, <1>3 DEF SendOneJob

LEMMA IdleWeights == TypeInv /\ BuffersPartitioned /\ WeightsInv /\ SchedIdle => WeightsInv'
<1> SUFFICES ASSUME TypeInv, BuffersPartitioned, WeightsInv, SchedIdle PROVE WeightsInv'
  OBVIOUS
<1>1. Take("Idle") /\ UNCHANGED memVars
  BY DEF SchedIdle
<1>2. CASE PopPrecise
  <2>1. Head(precise_job_queue) \in CopyTask
    BY <1>2, HeadTail DEF PopPrecise, TypeInv, TypeOK
  <2> QED BY <1>1, <1>2, <2>1, SendWeights DEF PopPrecise
<1>3. ASSUME NEW l \in Layer, PopLayer(l) PROVE WeightsInv'
  <2>1. Head(per_layer_job_queues[l]) \in CopyTask
    BY <1>3, HeadTail DEF PopLayer, TypeInv, TypeOK
  <2> QED BY <1>1, <1>3, <2>1, SendWeights DEF PopLayer
<1> QED BY <1>2, <1>3 DEF SchedIdle

(* The fetch worker overwrites a buffer only when its last owner is released. *)
LEMMA FetchStartWeights ==
  TypeInv /\ BuffersPartitioned /\ WeightsInv /\ FetchStart => WeightsInv'
<1> SUFFICES ASSUME TypeInv, BuffersPartitioned, WeightsInv, FetchStart PROVE WeightsInv'
  OBVIOUS
<1> DEFINE e == current.expert
           b == gpu_data[e]
<1>1. /\ current \in CopyTask /\ e \in Expert /\ b \in Buffer
      /\ b # NoBuffer /\ expert_status[e] = "Fetching"
      /\ num_ready[e] = current.start /\ current.start <= current.stop
      /\ victim # NoExpert => current.start = 0 /\ gpu_data[victim] = NoBuffer
      /\ current.start \in Nat
  BY DEF FetchStart, WeightsInv, CurrentInv, InFlight, CopyTask, TypeInv, TypeOK
<1>2. ~InQueue("Idle") /\ ~InQueue("FetchDone") /\ UniqueToken
  BY DEF FetchStart, WeightsInv, OneJobToken
<1>3. /\ UNCHANGED <<squeue, current, gpu_data, num_ready>>
      /\ fpc' = "copy" /\ victim' = NoExpert
      /\ content' = Filled(b, NoExpert)
      /\ mapped' = IF current.start = 0 THEN [mapped EXCEPT ![e] = b] ELSE mapped
      /\ expert_status' = IF victim = NoExpert THEN expert_status
                          ELSE [expert_status EXCEPT ![victim] = "Idle"]
      /\ victim # NoExpert => expert_status[victim] = "Ready"
  BY DEF FetchStart, VictimReleased
<1>4. UniqueToken' /\ ~InQueue("Idle")' /\ ~InQueue("FetchDone")'
  BY <1>2, <1>3 DEF UniqueToken, InQueue
<1>5. OneJobToken'
  BY <1>3, <1>4 DEF OneJobToken
<1>6. mapped'[e] = b
  <2>1. CASE current.start = 0
    BY <2>1, <1>1, <1>3 DEF TypeInv, TypeOK
  <2>2. CASE current.start # 0
    BY <2>2, <1>1, <1>3 DEF WeightsInv, CachedInv
  <2> QED BY <2>1, <2>2
<1>7. expert_status'[e] = "Fetching"
  BY <1>1, <1>3 DEF TypeInv, TypeOK
<1>8. CurrentInv'
  BY <1>1, <1>3, <1>4, <1>6, <1>7 DEF CurrentInv
<1>9. \A f \in Expert : gpu_data[f] # NoBuffer => expert_status'[f] = expert_status[f]
  <2> SUFFICES ASSUME NEW f \in Expert, gpu_data[f] # NoBuffer, victim = f
               PROVE  FALSE
    BY <1>3 DEF TypeInv, TypeOK
  <2>1. f # NoExpert
    BY ConstantsAssumption
  <2> QED BY <1>1, <2>1
<1>10. CachedInv'
  <2> SUFFICES ASSUME NEW f \in Expert, gpu_data[f] # NoBuffer
               PROVE  /\ num_ready[f] = P => expert_status'[f] \in {"Ready", "Launching", "Using"}
                      /\ num_ready[f] # P => expert_status'[f] = "Fetching"
                      /\ num_ready[f] # 0 => mapped'[f] = gpu_data[f]
                      /\ \A c \in Chunk : c < num_ready[f] => content'[gpu_data[f]][c] = f
    BY <1>3 DEF CachedInv, Holds
  <2>1. CASE f = e
    <3>1. \A c \in Chunk : c < num_ready[e] => content'[b][c] = content[b][c]
      BY <1>1, <1>3 DEF Filled, CopyChunks, Chunk, TypeInv, TypeOK
    <3> QED BY <2>1, <3>1, <1>6, <1>7, <1>9 DEF WeightsInv, CachedInv, Holds
  <2>2. CASE f # e
    <3>1. gpu_data[f] # b
      BY <2>2, <1>1 DEF BuffersPartitioned
    <3>2. content'[gpu_data[f]] = content[gpu_data[f]] /\ mapped'[f] = mapped[f]
      BY <2>2, <3>1, <1>1, <1>3 DEF Filled, TypeInv, TypeOK
    <3> QED BY <3>2, <1>9 DEF WeightsInv, CachedInv, Holds
  <2> QED BY <2>1, <2>2
<1>11. EvictedInv'
  <2> SUFFICES ASSUME NEW f \in Expert, gpu_data[f] = NoBuffer
               PROVE  num_ready[f] = 0 /\ expert_status'[f] = "Idle"
    BY <1>3 DEF EvictedInv
  <2>1. CASE expert_status[f] = "Idle"
    BY <2>1, <1>3 DEF WeightsInv, EvictedInv, TypeInv, TypeOK
  <2>2. CASE expert_status[f] # "Idle"
    <3>1. victim = f /\ f # NoExpert
      BY <2>2, ConstantsAssumption DEF WeightsInv, EvictedInv
    <3> QED BY <3>1, <1>3 DEF WeightsInv, EvictedInv, TypeInv, TypeOK
  <2> QED BY <2>1, <2>2
<1> QED BY <1>5, <1>8, <1>10, <1>11 DEF WeightsInv

(* The copies have ended. *)
LEMMA FetchEndWeights ==
  TypeInv /\ BuffersPartitioned /\ WeightsInv /\ FetchEnd => WeightsInv'
<1> SUFFICES ASSUME TypeInv, BuffersPartitioned, WeightsInv, FetchEnd PROVE WeightsInv'
  OBVIOUS
<1> DEFINE e == current.expert
           b == gpu_data[e]
<1>1. /\ current \in CopyTask /\ e \in Expert /\ b \in Buffer
      /\ b # NoBuffer /\ expert_status[e] = "Fetching"
      /\ num_ready[e] = current.start /\ current.start <= current.stop
      /\ mapped[e] = b /\ current.start \in Nat /\ current.stop \in Nat
      /\ victim = NoExpert
  BY DEF FetchEnd, WeightsInv, OneJobToken, CurrentInv, InFlight, CopyTask, TypeInv, TypeOK
<1>2. ~InQueue("Idle") /\ ~InQueue("FetchDone") /\ squeue \in Seq(Kind)
  BY DEF FetchEnd, WeightsInv, OneJobToken, TypeInv, TypeOK, Kind
<1>3. /\ UNCHANGED <<current, gpu_data, num_ready, mapped, expert_status, victim>>
      /\ fpc' = "idle" /\ content' = Filled(b, e)
      /\ squeue' = Append(squeue, "FetchDone")
  BY DEF FetchEnd
<1>4. UniqueToken' /\ ~InQueue("Idle")' /\ InQueue("FetchDone")'
  BY <1>2, <1>3, TokenFetchDone
<1>5. OneJobToken'
  BY <1>1, <1>3, <1>4 DEF OneJobToken
<1>6. \A c \in Chunk : c < current.stop => content'[b][c] = e
  <2> SUFFICES ASSUME NEW c \in Chunk, c < current.stop PROVE content'[b][c] = e
    OBVIOUS
  <2>1. content'[b] = [k \in Chunk |-> IF k \in CopyChunks THEN e ELSE content[b][k]]
    BY <1>1, <1>3 DEF Filled, TypeInv, TypeOK
  <2>2. CASE c < current.start
    <3>1. content[b][c] = e
      BY <2>2, <1>1 DEF WeightsInv, CachedInv, Holds
    <3> QED BY <2>1, <3>1
  <2>3. CASE ~(c < current.start)
    <3>1. c \in CopyChunks
      BY <2>3, <1>1 DEF CopyChunks, Chunk
    <3> QED BY <2>1, <3>1
  <2> QED BY <2>2, <2>3
<1>7. CurrentInv'
  BY <1>1, <1>3, <1>6 DEF CurrentInv, Holds
<1>8. CachedInv'
  <2> SUFFICES ASSUME NEW f \in Expert, gpu_data[f] # NoBuffer
               PROVE  \A c \in Chunk : c < num_ready[f] => content'[gpu_data[f]][c] = f
    BY <1>3 DEF WeightsInv, CachedInv, Holds
  <2>1. CASE f = e
    BY <2>1, <1>1, <1>6 DEF Chunk
  <2>2. CASE f # e
    <3>1. gpu_data[f] # b
      BY <2>2, <1>1 DEF BuffersPartitioned
    <3>2. content'[gpu_data[f]] = content[gpu_data[f]]
      BY <3>1, <1>1, <1>3 DEF Filled, TypeInv, TypeOK
    <3> QED BY <3>2 DEF WeightsInv, CachedInv, Holds
  <2> QED BY <2>1, <2>2
<1>9. EvictedInv'
  <2>1. \A f \in Expert : f # NoExpert
    BY ConstantsAssumption
  <2> QED BY <2>1, <1>1, <1>3 DEF WeightsInv, EvictedInv
<1> QED BY <1>5, <1>7, <1>8, <1>9 DEF WeightsInv

(* The compute stream, the unlock worker and the predict worker. *)
LEMMA OtherWeights == TypeInv /\ WeightsInv /\ (StreamStep \/ Unlock \/ Predictor) => WeightsInv'
<1> SUFFICES ASSUME TypeInv, WeightsInv, StreamStep \/ Unlock \/ Predictor PROVE WeightsInv'
  OBVIOUS
<1>t. squeue \in Seq(Kind) /\ UniqueToken
  BY DEF TypeInv, TypeOK, WeightsInv, OneJobToken, Kind
<1>c. InFlight => current \in CopyTask
  BY DEF WeightsInv, CurrentInv
<1>1. UniqueToken' /\ \A kind \in TokenKind : InQueue(kind)' => InQueue(kind)
  <2>1. CASE squeue' = squeue
    BY <2>1, <1>t DEF UniqueToken, InQueue
  <2>2. CASE squeue' = Append(squeue, "Prefetch")
    <3>1. "Prefetch" \in Kind \ TokenKind
      BY DEF Kind, TokenKind
    <3> QED BY <2>2, <3>1, <1>t, TokenAppend
  <2> QED BY <2>1, <2>2 DEF StreamStep, Unlock, Predictor, PredictStart, PredictLayer,
            PredictLayerDone
<1>2. UNCHANGED <<gpu_data, num_ready, mapped, content, fpc, victim, current>>
  BY DEF StreamStep, Unlock, Predictor, PredictStart, PredictLayer, PredictLayerDone
<1>3. \A e \in Expert : \/ expert_status'[e] = expert_status[e]
                        \/ expert_status[e] \in InUse /\ expert_status'[e] \in InUse
  <2>1. CASE Unlock
    BY <2>1 DEF Unlock, CheckedTransfer, Transferred, InUse, TypeInv, TypeOK
  <2>2. CASE UNCHANGED expert_status
    BY <2>2
  <2> QED BY <2>1, <2>2 DEF StreamStep, Predictor, PredictStart, PredictLayer, PredictLayerDone
<1>4. InFlight' => InFlight
  BY <1>1, <1>2 DEF InFlight, TokenKind
<1> QED BY <1>1, <1>2, <1>3, <1>4, <1>c, WeightsFrame

(* WeightsInv is inductive, it holds at first, and it implies the property. *)
LEMMA NextWeights ==
  TypeInv /\ BuffersPartitioned /\ WeightsInv /\ [Next]_vars => WeightsInv'
<1> SUFFICES ASSUME TypeInv, BuffersPartitioned, WeightsInv, [Next]_vars PROVE WeightsInv'
  OBVIOUS
<1>1. CASE Hook
  BY <1>1, HookWeights
<1>2. CASE Scheduler
  BY <1>2, PreemptWeights, FetchDoneWeights, IdleWeights DEF Scheduler
<1>3. CASE Fetcher
  BY <1>3, FetchStartWeights, FetchEndWeights DEF Fetcher
<1>4. CASE StreamStep \/ Unlock \/ Predictor
  BY <1>4, OtherWeights
<1>5. CASE UNCHANGED vars
  BY <1>5, SendAbortWeights DEF vars
<1> QED BY <1>1, <1>2, <1>3, <1>4, <1>5 DEF Next, Step

LEMMA InitWeights == Init => WeightsInv
<1> SUFFICES ASSUME Init PROVE WeightsInv
  OBVIOUS
<1>1. squeue = <<"Idle">> /\ Len(squeue) = 1 /\ squeue[1] = "Idle"
  BY DEF Init
<1>2. UniqueToken /\ ~InQueue("FetchDone")
  BY <1>1 DEF UniqueToken, InQueue
<1>3. fpc = "idle" /\ victim = NoExpert
  BY DEF Init
<1> QED BY <1>2, <1>3 DEF Init, WeightsInv, OneJobToken, CurrentInv, InFlight, CachedInv, EvictedInv

-----------------------------------------------------------------------------
(* Kernels the stream has not reached belong to experts that are still kUsing. *)
StreamInv == \A i \in 1 .. Len(stream) : expert_status[stream[i]] = "Using"

(* No step but the unlock worker's changes the status of an expert in use. *)
UsingKept == \A e \in Expert : expert_status[e] = "Using" => expert_status'[e] = "Using"

LEMMA TransferKeepsUsing ==
  ASSUME TypeInv, NEW e \in Expert, NEW from \in Status \ {"Using"}, NEW to, NEW line,
         CheckedTransfer(e, from, to, line) \/ expert_status' = Transferred(e, from, to)
  PROVE  UsingKept
BY DEF CheckedTransfer, Transferred, UsingKept, TypeInv, TypeOK, Status

LEMMA SendKeepsUsing ==
  ASSUME TypeInv, BuffersPartitioned, WeightsInv, Take("Idle"), NEW t \in CopyTask, SendOneJob(t)
  PROVE  UsingKept
<1>e. t.expert \in Expert
  BY DEF CopyTask
<1>1. CASE SendMissed(t)
  <2>1. expert_status[t.expert] = "Idle"
    BY <1>1, <1>e, IdleQuiet DEF SendMissed
  <2>2. CASE UNCHANGED expert_status
    BY <2>2 DEF UsingKept
  <2>3. CASE TakeUnused(t.expert)
    BY <2>3, <1>e, TransferKeepsUsing DEF TakeUnused, Status
  <2>4. ASSUME NEW v \in InSlot(t.expert), Evict(t.expert, v) PROVE UsingKept
    BY <2>1, <2>4, <1>e DEF Evict, InSlot, Pinned, UsingKept, TypeInv, TypeOK
  <2> QED BY <1>1, <2>2, <2>3, <2>4 DEF SendMissed
<1>2. CASE SendDuplicate(t)
  <2>1. CASE t.is_precise
    BY <1>2, <2>1, <1>e, TransferKeepsUsing DEF SendDuplicate, Status
  <2>2. CASE ~t.is_precise
    BY <1>2, <2>2 DEF SendDuplicate, UsingKept
  <2> QED BY <2>1, <2>2
<1>3. CASE SendRest(t)
  BY <1>3 DEF SendRest, UsingKept
<1> QED BY <1>1, <1>2, <1>3 DEF SendOneJob

LEMMA SchedulerKeepsUsing ==
  ASSUME TypeInv, BuffersPartitioned, WeightsInv, Scheduler
  PROVE  UsingKept
<1>1. CASE SchedIdle
  <2>1. Take("Idle")
    BY <1>1 DEF SchedIdle
  <2>2. CASE PopPrecise
    <3>1. Head(precise_job_queue) \in CopyTask
      BY <2>2, HeadTail DEF PopPrecise, TypeInv, TypeOK
    <3> QED BY <2>1, <2>2, <3>1, SendKeepsUsing DEF PopPrecise
  <2>3. ASSUME NEW l \in Layer, PopLayer(l) PROVE UsingKept
    <3>1. Head(per_layer_job_queues[l]) \in CopyTask
      BY <2>3, HeadTail DEF PopLayer, TypeInv, TypeOK
    <3> QED BY <2>1, <2>3, <3>1, SendKeepsUsing DEF PopLayer
  <2> QED BY <1>1, <2>2, <2>3 DEF SchedIdle
<1>2. CASE SchedFetchDone
  <2>1. InQueue("FetchDone")
    BY <1>2 DEF SchedFetchDone, Take, InQueue, TypeInv, TypeOK
  <2>2. current.expert \in Expert
    BY <2>1 DEF WeightsInv, CurrentInv, InFlight, CopyTask
  <2>3. CASE UNCHANGED expert_status
    BY <2>3 DEF UsingKept
  <2> QED BY <1>2, <2>2, <2>3, TransferKeepsUsing DEF SchedFetchDone, Status
<1>3. ASSUME NEW e \in Expert, NEW behind, NEW line, PreemptExpert(e, behind, line)
      PROVE  UsingKept
  <2>1. CASE UNCHANGED expert_status
    BY <2>1 DEF UsingKept
  <2>2. CASE CheckedTransfer(e, "Ready", "Launching", line)
    BY <2>2, TransferKeepsUsing DEF Status
  <2> QED BY <1>3, <2>1, <2>2 DEF PreemptExpert, AddPrecise
<1>4. CASE SchedPreemptExpert
  <2>1. <<layer, experts[sidx]>> \in Expert
    BY <1>4 DEF SchedPreemptExpert, Expert, TypeInv, TypeOK
  <2> QED BY <1>3, <1>4, <2>1 DEF SchedPreemptExpert
<1>5. CASE SchedPreemptOne
  <2>1. InQueue("PreemptOne")
    BY <1>5 DEF SchedPreemptOne, Take, InQueue, TypeInv, TypeOK
  <2>2. HookExpert \in Expert
    BY <2>1 DEF HookExpert, Expert, TypeInv, TypeOK, IndexInv
  <2> QED BY <1>3, <1>5, <2>2 DEF SchedPreemptOne
<1>6. CASE SchedPreempt \/ SchedPreemptEnd \/ SchedPrefetchLayer \/ SchedIdleAgain
  BY <1>6 DEF SchedPreempt, SchedPreemptEnd, SchedPrefetchLayer, SchedIdleAgain, UsingKept
<1> QED BY <1>1, <1>2, <1>4, <1>5, <1>6 DEF Scheduler

LEMMA NextStream ==
  TypeInv /\ BuffersPartitioned /\ WeightsInv /\ StreamInv /\ [Next]_vars => StreamInv'
<1> SUFFICES ASSUME TypeInv, BuffersPartitioned, WeightsInv, StreamInv, [Next]_vars
             PROVE  StreamInv'
  OBVIOUS
<1>t. stream \in Seq(Expert) /\ expert_status \in [Expert -> Status]
  BY DEF TypeInv, TypeOK
<1>1. ASSUME UsingKept, UNCHANGED stream PROVE StreamInv'
  BY <1>t, <1>1 DEF StreamInv, UsingKept
<1>2. CASE HookExpertDone
  <2>1. HookExpert \in Expert
    BY <1>2 DEF HookExpertDone, HookExpert, Expert, TypeInv, TypeOK, IndexInv
  <2>2. UsingKept /\ expert_status'[HookExpert] = "Using"
    BY <1>2, <1>t, <2>1 DEF HookExpertDone, UsingKept
  <2>3. /\ Len(stream') = Len(stream) + 1 /\ Len(stream) \in Nat
        /\ \A i \in 1 .. Len(stream) : stream'[i] = stream[i] /\ stream[i] \in Expert
        /\ stream'[Len(stream) + 1] = HookExpert
    BY <1>2, <1>t, <2>1, Appended DEF HookExpertDone
  <2> QED BY <2>2, <2>3 DEF StreamInv, UsingKept
<1>3. CASE StreamStep
  <2>1. /\ Len(stream') = Len(stream) - 1 /\ Len(stream) \in Nat
        /\ \A i \in 1 .. Len(stream') : stream'[i] = stream[i + 1]
    BY <1>3, <1>t, HeadTail DEF StreamStep
  <2>2. UNCHANGED expert_status
    BY <1>3 DEF StreamStep
  <2> QED BY <2>1, <2>2 DEF StreamInv
<1>4. CASE Unlock
  <2>1. /\ UNCHANGED stream /\ Head(uqueue) \in Expert
        /\ \A i \in 1 .. Len(stream) : stream[i] # Head(uqueue)
    BY <1>4, HeadTail DEF Unlock, TypeInv, TypeOK
  <2>2. \A e \in Expert : e # Head(uqueue) => expert_status'[e] = expert_status[e]
    BY <1>4, <1>t, <2>1 DEF Unlock, CheckedTransfer, Transferred
  <2> QED BY <1>t, <2>1, <2>2 DEF StreamInv
<1>5. CASE Scheduler
  <2>1. UNCHANGED stream
    BY <1>5 DEF Scheduler, SchedPreempt, SchedPreemptExpert, SchedPreemptEnd, SchedPreemptOne,
       SchedPrefetchLayer, SchedFetchDone, SchedIdle, SchedIdleAgain
  <2> QED BY <1>1, <1>5, <2>1, SchedulerKeepsUsing
<1>6. CASE FetchStart
  <2>1. UsingKept
    BY <1>6, <1>t DEF FetchStart, VictimReleased, UsingKept
  <2> QED BY <1>1, <1>6, <2>1 DEF FetchStart
<1>7. CASE UNCHANGED <<stream, expert_status>>
  BY <1>1, <1>7 DEF UsingKept
<1>8. HookStart \/ HookReportLayer \/ HookReportExpert \/ HookLayerDone \/ FetchEnd \/ Predictor
        \/ UNCHANGED vars => UNCHANGED <<stream, expert_status>>
  BY DEF HookStart, HookReportLayer, HookReportExpert, HookLayerDone, FetchEnd, Predictor,
     PredictStart, PredictLayer, PredictLayerDone, vars
<1> QED BY <1>2, <1>3, <1>4, <1>5, <1>6, <1>7, <1>8 DEF Next, Step, Hook, Fetcher

-----------------------------------------------------------------------------
LEMMA WeightsImplyReads == TypeInv /\ WeightsInv /\ StreamInv => ComputeReadsOwnWeights
<1> SUFFICES ASSUME TypeInv, WeightsInv, NEW e \in Expert,
                    expert_status[e] \in {"Launching", "Using"}
             PROVE  mapped[e] # NoBuffer /\ \A c \in Chunk : content[mapped[e]][c] = e
  BY DEF ComputeReadsOwnWeights, StreamInv, InStream
<1>p. P \in Nat \ {0} /\ \A c \in Chunk : c < P
  BY ConstantsAssumption DEF P, Chunk
<1>1. CASE gpu_data[e] # NoBuffer
  <2>1. num_ready[e] = P
    BY <1>1 DEF WeightsInv, CachedInv
  <2> QED BY <1>1, <1>p, <2>1 DEF WeightsInv, CachedInv, Holds
<1>2. CASE gpu_data[e] = NoBuffer
  <2>1. victim = e /\ mapped[e] = gpu_data[current.expert] /\ Holds(mapped[e], e, P)
    BY <1>2 DEF WeightsInv, EvictedInv
  <2>2. e # NoExpert
    BY ConstantsAssumption
  <2>3. InFlight
    BY <2>1, <2>2 DEF WeightsInv, OneJobToken, InFlight
  <2> QED BY <1>p, <2>1, <2>3 DEF WeightsInv, CurrentInv, Holds
<1> QED BY <1>1, <1>2

(* While the GPU may compute an expert, the memory its parameters are mapped to holds its own  *)
(* weights, although the scheduler gives the buffer of an expert in use to another one before  *)
(* the expert is released (lambda_wait of CacheMngr::miss).                                    *)
THEOREM ComputesWithOwnWeights == Spec => []ComputeReadsOwnWeights
<1>1. Spec => []TypeInv
  BY InitTypeInv, NextTypeInv, PTL DEF Spec
<1>2. Spec => []BuffersPartitioned
  BY CachePartitionsBuffers
<1>3. Spec => []WeightsInv
  BY <1>1, <1>2, InitWeights, NextWeights, PTL DEF Spec
<1>4. Init => StreamInv
  BY DEF Init, StreamInv
<1>5. Spec => []StreamInv
  BY <1>1, <1>2, <1>3, <1>4, NextStream, PTL DEF Spec
<1> QED BY <1>1, <1>3, <1>5, WeightsImplyReads, PTL

-----------------------------------------------------------------------------
(* The CHECKs of a hand-over of an expert between the cache, the scheduler and the fetch and  *)
(* unlock workers.                                                                            *)
HandOverChecks ==
  {"cache.cpp:301", "cache.cpp:304", "prefetcher.cpp:566", "prefetcher.cpp:624",
   "prefetcher.cpp:628", "worker.cpp:82"}

HandOverSafe == aborted \notin HandOverChecks

(* send_one_job fails none of them, and nothing else does. *)
LEMMA SendHandOver ==
  ASSUME TypeInv, BuffersPartitioned, WeightsInv, HandOverSafe, Take("Idle"),
         NEW t \in CopyTask, SendOneJob(t)
  PROVE  HandOverSafe'
<1>e. t.expert \in Expert
  BY DEF CopyTask
<1>q. \A e \in Expert : gpu_data[e] = NoBuffer => expert_status[e] = "Idle" /\ num_ready[e] = 0
  BY IdleQuiet DEF WeightsInv, EvictedInv
<1>1. CASE SendMissed(t)
  <2>1. gpu_data[t.expert] = NoBuffer /\ num_ready[t.expert] = 0 /\ expert_status[t.expert] = "Idle"
    BY <1>1, <1>e, <1>q DEF SendMissed
  <2>2. CASE aborted' = "prefetcher.cpp:623"
    BY <2>2 DEF HandOverSafe, HandOverChecks
  <2>3. CASE TakeUnused(t.expert)
    BY <2>1, <2>3 DEF TakeUnused, CheckedTransfer, HandOverSafe
  <2>4. ASSUME NEW v \in InSlot(t.expert), Evict(t.expert, v) PROVE HandOverSafe'
    <3>1. v \in Expert /\ prefetched_experts[v] = gpu_data[v] /\ gpu_data[v] # NoBuffer
      BY DEF InSlot, IsInCache, BuffersPartitioned
    <3>2. expert_status[v] # "Idle"
      BY <3>1 DEF WeightsInv, CachedInv
    <3> QED BY <2>1, <2>4, <3>1, <3>2 DEF Evict, HandOverSafe
  <2> QED BY <1>1, <2>1, <2>2, <2>3, <2>4 DEF SendMissed
<1>2. CASE SendDuplicate(t)
  BY <1>2 DEF SendDuplicate, HandOverSafe, HandOverChecks
<1>3. CASE SendRest(t)
  BY <1>3 DEF SendRest, HandOverSafe, HandOverChecks
<1> QED BY <1>1, <1>2, <1>3 DEF SendOneJob

LEMMA NextHandOver ==
  TypeInv /\ BuffersPartitioned /\ WeightsInv /\ HandOverSafe /\ [Next]_vars => HandOverSafe'
<1> SUFFICES ASSUME TypeInv, BuffersPartitioned, WeightsInv, HandOverSafe, [Next]_vars
             PROVE  HandOverSafe'
  OBVIOUS
<1>1. CASE UNCHANGED aborted
  BY <1>1 DEF HandOverSafe
<1>2. CASE SchedIdle
  <2>1. Take("Idle")
    BY <1>2 DEF SchedIdle
  <2>2. CASE PopPrecise
    <3>1. Head(precise_job_queue) \in CopyTask
      BY <2>2, HeadTail DEF PopPrecise, TypeInv, TypeOK
    <3> QED BY <2>1, <2>2, <3>1, SendHandOver DEF PopPrecise
  <2>3. ASSUME NEW l \in Layer, PopLayer(l) PROVE HandOverSafe'
    <3>1. Head(per_layer_job_queues[l]) \in CopyTask
      BY <2>3, HeadTail DEF PopLayer, TypeInv, TypeOK
    <3> QED BY <2>1, <2>3, <3>1, SendHandOver DEF PopLayer
  <2> QED BY <1>2, <2>2, <2>3 DEF SchedIdle
<1>3. CASE SchedFetchDone
  <2>1. InQueue("FetchDone")
    BY <1>3 DEF SchedFetchDone, Take, InQueue, TypeInv, TypeOK
  <2>2. expert_status[current.expert] = "Fetching"
    BY <2>1 DEF WeightsInv, CurrentInv, InFlight
  <2> QED BY <1>3, <2>2 DEF SchedFetchDone, CheckedTransfer, HandOverSafe
<1>4. CASE SchedPrefetchLayer
  BY <1>4 DEF SchedPrefetchLayer, HandOverSafe, HandOverChecks
<1>5. CASE SchedPreemptExpert \/ SchedPreemptOne
  BY <1>5 DEF SchedPreemptExpert, SchedPreemptOne, PreemptExpert, AddPrecise, CheckedTransfer,
     HandOverSafe, HandOverChecks
<1>6. CASE Unlock
  BY <1>6 DEF Unlock, CheckedTransfer, HandOverSafe
<1>7. Next => \/ UNCHANGED aborted \/ SchedIdle \/ SchedFetchDone \/ SchedPrefetchLayer
              \/ SchedPreemptExpert \/ SchedPreemptOne \/ Unlock
  <2>1. Hook => UNCHANGED aborted
    BY DEF Hook, HookStart, HookReportLayer, HookReportExpert, HookExpertDone, HookLayerDone
  <2>2. Fetcher \/ StreamStep \/ Predictor => UNCHANGED aborted
    BY DEF Fetcher, FetchStart, FetchEnd, StreamStep, Predictor, PredictStart, PredictLayer,
       PredictLayerDone
  <2>3. SchedPreempt \/ SchedPreemptEnd \/ SchedIdleAgain => UNCHANGED aborted
    BY DEF SchedPreempt, SchedPreemptEnd, SchedIdleAgain
  <2> QED BY <2>1, <2>2, <2>3 DEF Next, Step, Scheduler
<1>8. UNCHANGED vars => UNCHANGED aborted
  BY DEF vars
<1> QED BY <1>1, <1>2, <1>3, <1>4, <1>5, <1>6, <1>7, <1>8

(* No schedule fails the CHECK of a transfer or of a buffer in CacheMngr::miss, send_one_job,  *)
(* FetchDoneTask or the unlock worker.                                                         *)
THEOREM HandOverChecksHold == Spec => []HandOverSafe
<1>1. Spec => []TypeInv
  BY InitTypeInv, NextTypeInv, PTL DEF Spec
<1>2. Spec => []WeightsInv
  BY <1>1, CachePartitionsBuffers, InitWeights, NextWeights, PTL DEF Spec
<1>3. Init => HandOverSafe
  BY DEF Init, HandOverSafe, HandOverChecks
<1> QED BY <1>1, <1>2, <1>3, CachePartitionsBuffers, NextHandOver, PTL DEF Spec
=============================================================================

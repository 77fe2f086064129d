------------------------- MODULE WorkerThreadProofs -------------------------
(***************************************************************************)
(* Proofs about WorkerThread for any number of threads and tasks and any   *)
(* width of the lock's counters: the lock excludes, no task dangles, and   *)
(* the worker thread implements the abstract queue.                        *)
(***************************************************************************)
EXTENDS WorkerThread, FiniteSetTheorems, TLAPS

-----------------------------------------------------------------------------
(* The steps, with the label a thread adds from and the one it goes on to *)

From(t) == IF t = Worker THEN "run" ELSE "idle"
After(t) == IF t = Worker THEN "run" ELSE IF t \in Waits THEN "wait" ELSE "idle"

AddLabels == {"add_spin", "count", "push", "add_unlock"}

(* Every step is one of a thread that adds, or one of the others by name. *)
LEMMA Steps ==
  ASSUME Next
  PROVE  \/ \E t \in Thread : StartAdd(t, From(t)) \/ FinishAdd(t, After(t))
         \/ \E p \in Producer : WaitProgress(p)
         \/ CheckExit \/ PopTask \/ EndTask \/ Exit
<1>1. ASSUME NEW p \in Producer
      PROVE  p \in Thread /\ From(p) = "idle" /\ After(p) = (IF p \in Waits THEN "wait" ELSE "idle")
  BY ConstantsAssumption DEF Thread, From, After
<1>2. Worker \in Thread /\ From(Worker) = "run" /\ After(Worker) = "run"
  BY DEF Thread, From, After
<1> QED BY <1>1, <1>2 DEF Next, ProducerStep, WorkerStep, StartTask
-----------------------------------------------------------------------------
(* Where the threads are, and what the worker has in hand *)

PcInv ==
  /\ \A t \in Thread : pc[t] \in AddLabels \cup {"wait"} => sent[t] >= 1
  /\ \A p \in Producer : pc[p] \in AddLabels \cup {"idle", "wait"} /\ (pc[p] = "wait" => p \in Waits)
  /\ pc[Worker] \in AddLabels \cup {"check", "pop", "pop_spin", "front", "pop_unlock", "run", "stopped"}
  /\ pc[Worker] \in {"check", "pop", "pop_spin", "front", "stopped"} => current = NoTask
  /\ pc[Worker] \in AddLabels \cup {"run"} => current # NoTask

Control == TypeOK /\ PcInv

LEMMA TaskFacts ==
  ASSUME Control, NEW t \in Thread, pc[t] = "push"
  PROVE  <<t, sent[t]>> \in Task
BY ConstantsAssumption DEF Control, TypeOK, PcInv, AddLabels, Task

LEMMA NoTaskFact == \A x \in Task : x # NoTask
BY ConstantsAssumption

LEMMA TicketType == \A n \in 0 .. (TicketRange - 1) : NextTicket(n) \in 0 .. (TicketRange - 1)
BY ConstantsAssumption DEF NextTicket

LEMMA QueueHead ==
  ASSUME NEW S, NEW q \in Seq(S), q # << >>
  PROVE  /\ Head(q) \in S /\ Head(q) = q[1]
         /\ Tail(q) \in Seq(S)
         /\ Len(q) \in Nat \ {0} /\ Len(Tail(q)) = Len(q) - 1
         /\ \A i \in 1 .. Len(Tail(q)) : Tail(q)[i] = q[i + 1]
OBVIOUS

LEMMA QueueAppend ==
  ASSUME NEW S, NEW q \in Seq(S), NEW x \in S
  PROVE  /\ Append(q, x) \in Seq(S)
         /\ Len(Append(q, x)) = Len(q) + 1
         /\ \A i \in 1 .. Len(q) : Append(q, x)[i] = q[i]
         /\ Append(q, x)[Len(q) + 1] = x
OBVIOUS

LEMMA InitControl == Init => Control
<1> SUFFICES ASSUME Init PROVE Control
  OBVIOUS
<1>t. TicketRange >= 1
  <2>1. IsFiniteSet(Thread) /\ Worker \in Thread
    BY ConstantsAssumption, FS_AddElement, FS_Singleton, FS_Union DEF Thread
  <2>2. Cardinality(Thread) \in Nat /\ Cardinality(Thread) # 0
    BY <2>1, FS_CardinalityType, FS_EmptySet
  <2> QED BY <2>2, ConstantsAssumption
<1>m. 0 \in 0 .. MaxTask /\ 0 \in 0 .. (TicketRange - 1)
  BY <1>t, ConstantsAssumption
<1>q. queue \in Seq(Task)
  BY DEF Init
<1>1. TypeOK
  BY <1>m, <1>q DEF Init, TypeOK
<1>2. PcInv
  BY ConstantsAssumption DEF Init, PcInv, AddLabels, Thread
<1> QED BY <1>1, <1>2 DEF Control

LEMMA StepControl == Control /\ [Next]_vars => Control'
<1> SUFFICES ASSUME Control, [Next]_vars PROVE Control'
  OBVIOUS
<1> USE DEF Control
<1>w. /\ Worker \in Thread /\ \A p \in Producer : p \in Thread /\ p # Worker
      /\ \A t \in Thread : t # Worker => t \in Producer
  BY ConstantsAssumption DEF Thread
<1>f. \A t \in Thread : From(t) = (IF t = Worker THEN "run" ELSE "idle")
                         /\ After(t) \in {"run", "wait", "idle"}
                         /\ (After(t) = "wait" => t \in Waits) /\ (After(t) = "run" <=> t = Worker)
  BY ConstantsAssumption DEF From, After
<1>1. ASSUME NEW t \in Thread, StartAdd(t, From(t)) PROVE Control'
  <2>1. sent[t] + 1 \in 0 .. MaxTask /\ NextTicket(num_req) \in 0 .. (TicketRange - 1)
    <3>1. sent[t] \in 0 .. MaxTask /\ sent[t] < MaxTask /\ num_req \in 0 .. (TicketRange - 1)
      BY <1>1 DEF StartAdd, TypeOK
    <3>2. MaxTask \in Nat
      BY ConstantsAssumption
    <3> QED BY <3>1, <3>2, TicketType
  <2>2. TypeOK'
    BY <1>1, <2>1 DEF StartAdd, LockRequest, Goto, TypeOK
  <2>3. PcInv'
    BY <1>1, <1>w, <1>f, <2>1, SMTT(30) DEF StartAdd, LockRequest, Goto, TypeOK, PcInv, AddLabels
  <2> QED BY <2>2, <2>3
<1>2. ASSUME NEW t \in Thread, FinishAdd(t, After(t)) PROVE Control'
  <2>1. CASE LockAcquire(t, "add_spin", "count") /\ UNCHANGED <<queue, queued, handle>>
    <3>1. TypeOK'
      BY <1>2, <2>1 DEF FinishAdd, LockAcquire, Goto, TypeOK, lockVars
    <3>2. PcInv'
      BY <1>2, <1>w, <2>1 DEF FinishAdd, LockAcquire, Goto, TypeOK, PcInv, AddLabels
    <3> QED BY <3>1, <3>2
  <2>2. CASE Count(t)
    <3>1. TypeOK'
      BY <1>2, <2>2 DEF FinishAdd, Count, Goto, TypeOK, lockVars
    <3>2. PcInv'
      BY <1>2, <1>w, <2>2 DEF FinishAdd, Count, Goto, TypeOK, PcInv, AddLabels
    <3> QED BY <3>1, <3>2
  <2>3. CASE Push(t)
    <3>1. queue' \in Seq(Task)
      BY <2>3, TaskFacts, QueueAppend DEF Push, Goto, Pushed, TypeOK
    <3>2. TypeOK'
      BY <1>2, <2>3, <3>1 DEF FinishAdd, Push, Goto, TypeOK, lockVars
    <3>3. PcInv'
      BY <1>2, <1>w, <2>3 DEF FinishAdd, Push, Goto, TypeOK, PcInv, AddLabels
    <3> QED BY <3>2, <3>3
  <2>4. CASE Unlock(t, "add_unlock", After(t)) /\ UNCHANGED <<queue, queued, handle>>
    <3>1. TypeOK'
      BY <1>2, <1>f, <2>4, TicketType DEF FinishAdd, Unlock, Goto, TypeOK
    <3>2. PcInv'
      BY <1>2, <1>w, <1>f, <2>4 DEF FinishAdd, Unlock, Goto, TypeOK, PcInv, AddLabels
    <3> QED BY <3>1, <3>2
  <2> QED BY <1>2, <2>1, <2>2, <2>3, <2>4 DEF FinishAdd
<1>3. ASSUME NEW p \in Producer, WaitProgress(p) PROVE Control'
  <2>1. TypeOK'
    BY <1>3, <1>w DEF WaitProgress, Goto, TypeOK, lockVars
  <2>2. PcInv'
    BY <1>3, <1>w DEF WaitProgress, Goto, TypeOK, PcInv, AddLabels
  <2> QED BY <2>1, <2>2
<1>4. CASE CheckExit
  <2>1. TypeOK'
    BY <1>4, <1>w DEF CheckExit, Goto, TypeOK, lockVars
  <2>2. PcInv'
    BY <1>4, <1>w DEF CheckExit, Goto, TypeOK, PcInv, AddLabels
  <2> QED BY <2>1, <2>2
<1>5. CASE PopTask
  <2>1. CASE LockRequest(Worker, "pop", "pop_spin") /\ UNCHANGED <<queue, current>>
    <3>1. TypeOK'
      BY <1>5, <2>1, <1>w, TicketType DEF PopTask, LockRequest, Goto, TypeOK
    <3>2. PcInv'
      BY <1>5, <2>1, <1>w DEF PopTask, LockRequest, Goto, TypeOK, PcInv, AddLabels
    <3> QED BY <3>1, <3>2
  <2>2. CASE LockAcquire(Worker, "pop_spin", "front") /\ UNCHANGED <<queue, current>>
    <3>1. TypeOK'
      BY <1>5, <2>2, <1>w DEF PopTask, LockAcquire, Goto, TypeOK, lockVars
    <3>2. PcInv'
      BY <1>5, <2>2, <1>w DEF PopTask, LockAcquire, Goto, TypeOK, PcInv, AddLabels
    <3> QED BY <3>1, <3>2
  <2>3. CASE FrontAndPop
    <3>1. queue' \in Seq(Task) /\ current' \in Task \cup {NoTask}
      <4>1. queue \in Seq(Task) /\ current \in Task \cup {NoTask}
        BY DEF TypeOK
      <4>2. CASE queue = << >>
        BY <2>3, <4>1, <4>2 DEF FrontAndPop
      <4>3. CASE queue # << >>
        <5>1. Head(queue) \in Task /\ Tail(queue) \in Seq(Task)
          BY <4>1, <4>3, QueueHead
        <5>2. queue' = Tail(queue) /\ current' = Head(queue)
          BY <2>3, <4>3 DEF FrontAndPop
        <5> QED BY <5>1, <5>2
      <4> QED BY <4>2, <4>3
    <3>2. TypeOK'
      BY <1>5, <2>3, <3>1, <1>w DEF PopTask, FrontAndPop, Goto, TypeOK, lockVars
    <3>3. PcInv'
      BY <1>5, <2>3, <1>w DEF PopTask, FrontAndPop, Goto, TypeOK, PcInv, AddLabels
    <3> QED BY <3>2, <3>3
  <2>4. CASE Unlock(Worker, "pop_unlock", AfterPop) /\ UNCHANGED <<queue, current>>
    <3>1. TypeOK'
      BY <1>5, <2>4, <1>w, TicketType DEF PopTask, Unlock, Goto, TypeOK, AfterPop
    <3>2. PcInv'
      BY <1>5, <2>4, <1>w DEF PopTask, Unlock, Goto, TypeOK, PcInv, AddLabels, AfterPop
    <3> QED BY <3>1, <3>2
  <2> QED BY <1>5, <2>1, <2>2, <2>3, <2>4 DEF PopTask
<1>6. CASE EndTask
  <2>1. TypeOK'
    BY <1>6, <1>w DEF EndTask, Goto, TypeOK, lockVars
  <2>2. PcInv'
    BY <1>6, <1>w DEF EndTask, Goto, TypeOK, PcInv, AddLabels
  <2> QED BY <2>1, <2>2
<1>7. CASE Exit
  BY <1>7 DEF Exit, TypeOK, PcInv, lockVars
<1>8. CASE UNCHANGED vars
  BY <1>8 DEF vars, lockVars, TypeOK, PcInv
<1> QED BY <1>1, <1>2, <1>3, <1>4, <1>5, <1>6, <1>7, <1>8, Steps

(* The worker's control state and the types of the shared variables. *)
THEOREM ControlCorrect == Spec => []TypeOK
<1>1. Control => TypeOK
  BY DEF Control
<1> QED BY InitControl, StepControl, <1>1, PTL DEF Spec
-----------------------------------------------------------------------------
(* The lock.  The threads that have requested it hold the tickets from num_locked on, one     *)
(* each: their number is what separates num_req from num_locked, modulo TicketRange.          *)

Active == {t \in Thread : pc[t] \in AddLabels \cup {"pop_spin", "front", "pop_unlock"}}

Ahead(n, k) == IF n + k >= TicketRange THEN (n + k) - TicketRange ELSE n + k
Distance(t) == IF ticket[t] >= num_locked THEN ticket[t] - num_locked
               ELSE (ticket[t] - num_locked) + TicketRange

LockInv ==
  /\ \A t \in Active : Distance(t) < Cardinality(Active)
  /\ \A s, t \in Active : ticket[s] = ticket[t] => s = t
  /\ num_req = Ahead(num_locked, Cardinality(Active))
  /\ \A t \in Thread : Holding(t) => ticket[t] = num_locked

LEMMA ActiveFinite ==
  /\ IsFiniteSet(Active) /\ Cardinality(Active) \in 0 .. TicketRange
  /\ \A t \in Thread : t \notin Active => Cardinality(Active) < TicketRange
<1>1. IsFiniteSet(Thread)
  BY ConstantsAssumption, FS_AddElement, FS_Singleton, FS_Union DEF Thread
<1>2. IsFiniteSet(Active) /\ Cardinality(Active) <= Cardinality(Thread)
  <2>1. Active \subseteq Thread
    BY DEF Active
  <2> QED BY <1>1, <2>1, FS_Subset
<1>3. Cardinality(Active) \in Nat /\ Cardinality(Thread) \in Nat
  BY <1>1, <1>2, FS_CardinalityType
<1>4. ASSUME NEW t \in Thread, t \notin Active
      PROVE  Cardinality(Active) < TicketRange
  <2>1. Active \subseteq Thread \ {t}
    BY <1>4 DEF Active
  <2>2. IsFiniteSet(Thread \ {t}) /\ Cardinality(Thread \ {t}) = Cardinality(Thread) - 1
    BY <1>1, FS_RemoveElement
  <2>3. Cardinality(Active) <= Cardinality(Thread \ {t})
    BY <2>1, <2>2, FS_Subset
  <2> QED BY <1>3, <2>2, <2>3, ConstantsAssumption
<1> QED BY <1>2, <1>3, <1>4, ConstantsAssumption

(* The holder is the one thread at distance zero. *)
LEMMA LockExcludes ==
  ASSUME LockInv
  PROVE  OneHolder
BY DEF LockInv, OneHolder, Holding, Active, AddLabels

(* A step that moves one thread without its entering or leaving Active, or becoming a holder. *)
LEMMA MoveLock ==
  ASSUME Control, LockInv, NEW t \in Thread, NEW from, NEW to, Goto(t, from, to),
         UNCHANGED lockVars,
         t \in Active <=> to \in AddLabels \cup {"pop_spin", "front", "pop_unlock"},
         Holding(t)' => Holding(t)
  PROVE  LockInv'
<1>1. Active' = Active
  BY DEF Goto, Active, Control, TypeOK
<1>2. \A s \in Thread : Holding(s)' => Holding(s)
  BY DEF Goto, Holding, Control, TypeOK
<1> QED BY <1>1, <1>2 DEF LockInv, Distance, Ahead, lockVars

LEMMA RequestLock ==
  ASSUME Control, LockInv, NEW t \in Thread, t \notin Active, NEW from,
         NEW to \in {"add_spin", "pop_spin"}, LockRequest(t, from, to)
  PROVE  LockInv'
<1> DEFINE n == Cardinality(Active)
<1>1. Active' = Active \cup {t}
  BY DEF LockRequest, Goto, Active, AddLabels, Control, TypeOK
<1>2. Cardinality(Active') = n + 1 /\ n \in 0 .. (TicketRange - 1) /\ TicketRange \in Nat
  <2>1. IsFiniteSet(Active) /\ n \in 0 .. TicketRange /\ TicketRange \in Nat /\ n < TicketRange
    BY ActiveFinite, ConstantsAssumption
  <2> QED BY <1>1, <2>1, FS_AddElement
<1>3. /\ ticket' = [ticket EXCEPT ![t] = num_req]
      /\ num_req' = NextTicket(num_req) /\ num_locked' = num_locked
      /\ num_locked \in 0 .. (TicketRange - 1) /\ ticket \in [Thread -> 0 .. (TicketRange - 1)]
      /\ num_req = Ahead(num_locked, n)
  BY DEF LockRequest, Control, TypeOK, LockInv
<1>4. num_req' = Ahead(num_locked', n + 1)
  BY <1>2, <1>3 DEF NextTicket, Ahead
<1>5. \A s \in Active : Distance(s)' = Distance(s) /\ ticket'[s] = ticket[s] /\ Distance(s) < n
                        /\ s \in Thread
  BY <1>3 DEF LockInv, Distance, Active
<1>6. ticket'[t] = num_req /\ Distance(t)' = n
  BY <1>2, <1>3 DEF Distance, Ahead
<1>7. \A s \in Active : ticket[s] # num_req
  BY <1>2, <1>3, <1>5 DEF Distance, Ahead
<1>8. \A s \in Thread : Holding(s)' => Holding(s) /\ s # t
  BY DEF LockRequest, Goto, Holding, Control, TypeOK
<1>9. \A s \in Active' : Distance(s)' < Cardinality(Active')
  <2> SUFFICES ASSUME NEW s \in Active' PROVE Distance(s)' < Cardinality(Active')
    OBVIOUS
  <2>1. CASE s = t
    BY <1>2, <1>6, <2>1
  <2>2. CASE s \in Active
    <3>1. Distance(s) \in Int
      BY <1>2, <1>3, <1>5, <2>2 DEF Distance
    <3> QED BY <1>2, <1>5, <2>2, <3>1
  <2> QED BY <1>1, <2>1, <2>2
<1>10. \A r, s \in Active' : ticket'[r] = ticket'[s] => r = s
  BY <1>1, <1>5, <1>6, <1>7 DEF LockInv
<1>11. \A s \in Thread : Holding(s)' => ticket'[s] = num_locked'
  BY <1>3, <1>8 DEF LockInv
<1> QED BY <1>2, <1>4, <1>9, <1>10, <1>11 DEF LockInv

LEMMA AcquireLock ==
  ASSUME Control, LockInv, NEW t \in Thread, NEW from \in {"add_spin", "pop_spin"},
         NEW to \in {"count", "front"}, LockAcquire(t, from, to)
  PROVE  LockInv'
<1>1. Active' = Active
  BY DEF LockAcquire, Goto, Active, AddLabels, Control, TypeOK
<1>2. \A s \in Thread : Holding(s)' => Holding(s) \/ s = t
  BY DEF LockAcquire, Goto, Holding, Control, TypeOK
<1> QED BY <1>1, <1>2 DEF LockAcquire, Granted, LockInv, Distance, Ahead, lockVars

LEMMA ReleaseLock ==
  ASSUME Control, LockInv, NEW t \in Thread, NEW from \in {"add_unlock", "pop_unlock"},
         NEW to \in {"idle", "wait", "run", "check"}, Unlock(t, from, to)
  PROVE  LockInv'
<1> DEFINE n == Cardinality(Active)
<1>1. Active' = Active \ {t} /\ t \in Active /\ Holding(t)
  BY DEF Unlock, Goto, Active, AddLabels, Holding, Control, TypeOK
<1>2. Cardinality(Active') = n - 1 /\ n \in 1 .. TicketRange /\ TicketRange \in Nat
  <2>1. IsFiniteSet(Active) /\ n \in 0 .. TicketRange /\ TicketRange \in Nat
    BY ActiveFinite, ConstantsAssumption
  <2>2. n # 0
    BY <1>1, <2>1, FS_EmptySet
  <2> QED BY <1>1, <2>1, <2>2, FS_RemoveElement, SMTT(30)
<1>3. /\ ticket' = ticket /\ num_req' = num_req /\ num_locked' = NextTicket(num_locked)
      /\ num_locked \in 0 .. (TicketRange - 1) /\ ticket \in [Thread -> 0 .. (TicketRange - 1)]
      /\ num_req = Ahead(num_locked, n)
  BY DEF Unlock, Control, TypeOK, LockInv
<1>4. num_req' = Ahead(num_locked', n - 1)
  BY <1>2, <1>3 DEF NextTicket, Ahead
<1>5. ticket[t] = num_locked
  BY <1>1 DEF LockInv
<1>6. \A s \in Active \ {t} : ticket[s] # num_locked /\ Distance(s) < n
                               /\ ticket[s] \in 0 .. (TicketRange - 1)
  BY <1>1, <1>3, <1>5 DEF LockInv, Active
<1>7. \A s \in Active \ {t} : Distance(s)' < n - 1
  BY <1>2, <1>3, <1>6 DEF Distance, NextTicket
<1>8. \A s \in Thread : ~Holding(s)'
  <2>1. \A s \in Thread : Holding(s)' => Holding(s) /\ s # t
    BY DEF Unlock, Goto, Holding, Control, TypeOK
  <2> QED BY <1>1, <2>1, LockExcludes DEF OneHolder
<1>9. \A r, s \in Active' : ticket'[r] = ticket'[s] => r = s
  BY <1>1, <1>3 DEF LockInv
<1> QED BY <1>1, <1>2, <1>4, <1>7, <1>8, <1>9 DEF LockInv

LEMMA InitLock == Init => LockInv
<1> SUFFICES ASSUME Init PROVE LockInv
  OBVIOUS
<1>1. Active = {}
  BY ConstantsAssumption DEF Init, Active, AddLabels
<1>2. \A t \in Thread : ~Holding(t)
  BY DEF Init, Holding
<1>3. num_req = Ahead(num_locked, 0)
  <2>1. Control
    BY InitControl
  <2>2. num_locked = 0 /\ num_req = 0 /\ TicketRange \in Nat /\ TicketRange # 0
    BY <2>1, ConstantsAssumption DEF Init, Control, TypeOK
  <2> QED BY <2>2 DEF Ahead
<1> QED BY <1>1, <1>2, <1>3, FS_EmptySet DEF LockInv

LEMMA StepLock == Control /\ LockInv /\ [Next]_vars => LockInv'
<1> SUFFICES ASSUME Control, LockInv, [Next]_vars PROVE LockInv'
  OBVIOUS
<1>w. Worker \in Thread /\ \A p \in Producer : p \in Thread
  BY DEF Thread
<1>f. \A t \in Thread : From(t) \in {"run", "idle"} /\ After(t) \in {"run", "wait", "idle"}
  BY DEF From, After
<1>p. pc \in [Thread -> {"idle", "add_spin", "count", "push", "add_unlock", "wait", "check",
                         "pop", "pop_spin", "front", "pop_unlock", "run", "stopped"}]
  BY DEF Control, TypeOK
<1>1. ASSUME NEW t \in Thread, StartAdd(t, From(t)) PROVE LockInv'
  <2>1. t \notin Active
    BY <1>1, <1>f DEF StartAdd, LockRequest, Goto, Active, AddLabels
  <2> QED BY <1>1, <2>1, RequestLock DEF StartAdd
<1>2. ASSUME NEW t \in Thread, FinishAdd(t, After(t)) PROVE LockInv'
  <2>1. CASE LockAcquire(t, "add_spin", "count")
    BY <2>1, AcquireLock
  <2>2. CASE Count(t)
    <3>1. Goto(t, "count", "push") /\ UNCHANGED lockVars /\ t \in Active /\ Holding(t)
      BY <2>2, <1>p DEF Count, Goto, Active, AddLabels, Holding
    <3> QED BY <3>1, MoveLock DEF AddLabels
  <2>3. CASE Push(t)
    <3>1. Goto(t, "push", "add_unlock") /\ UNCHANGED lockVars /\ t \in Active /\ Holding(t)
      BY <2>3, <1>p DEF Push, Goto, Active, AddLabels, Holding
    <3> QED BY <3>1, MoveLock DEF AddLabels
  <2>4. CASE Unlock(t, "add_unlock", After(t))
    BY <2>4, <1>f, ReleaseLock
  <2> QED BY <1>2, <2>1, <2>2, <2>3, <2>4 DEF FinishAdd
<1>3. ASSUME NEW p \in Producer, WaitProgress(p) PROVE LockInv'
  <2>1. /\ Goto(p, "wait", "idle") /\ UNCHANGED lockVars /\ p \in Thread
        /\ p \notin Active /\ ~Holding(p)'
    BY <1>3, <1>w, <1>p DEF WaitProgress, lockVars, Goto, Active, AddLabels, Holding
  <2> QED BY <2>1, MoveLock DEF AddLabels
<1>4. CASE CheckExit
  <2>1. PICK to \in {"stopped", "pop"} : Goto(Worker, "check", to)
    BY <1>4 DEF CheckExit
  <2>2. UNCHANGED lockVars /\ Worker \notin Active /\ ~Holding(Worker)'
    BY <1>4, <2>1, <1>w, <1>p DEF CheckExit, lockVars, Goto, Active, AddLabels, Holding
  <2> QED BY <1>w, <2>1, <2>2, MoveLock DEF AddLabels
<1>5. CASE PopTask
  <2>1. CASE LockRequest(Worker, "pop", "pop_spin")
    <3>1. Worker \notin Active
      BY <2>1 DEF LockRequest, Goto, Active, AddLabels
    <3> QED BY <2>1, <3>1, <1>w, RequestLock
  <2>2. CASE LockAcquire(Worker, "pop_spin", "front")
    BY <2>2, <1>w, AcquireLock
  <2>3. CASE FrontAndPop
    <3>1. Goto(Worker, "front", "pop_unlock") /\ UNCHANGED lockVars
          /\ Worker \in Active /\ Holding(Worker)
      BY <2>3, <1>w, <1>p DEF FrontAndPop, Goto, Active, AddLabels, Holding
    <3> QED BY <1>w, <3>1, MoveLock
  <2>4. CASE Unlock(Worker, "pop_unlock", AfterPop)
    <3>1. AfterPop \in {"check", "run"}
      BY DEF AfterPop
    <3> QED BY <2>4, <3>1, <1>w, ReleaseLock
  <2> QED BY <1>5, <2>1, <2>2, <2>3, <2>4 DEF PopTask
<1>6. CASE EndTask
  <2>1. /\ Goto(Worker, "run", "check") /\ UNCHANGED lockVars
        /\ Worker \notin Active /\ ~Holding(Worker)'
    BY <1>6, <1>w, <1>p DEF EndTask, lockVars, Goto, Active, AddLabels, Holding
  <2> QED BY <1>w, <2>1, MoveLock DEF AddLabels
<1>7. CASE Exit
  BY <1>7 DEF Exit, LockInv, Active, Holding, Distance, Ahead, lockVars
<1>8. CASE UNCHANGED vars
  BY <1>8 DEF vars, LockInv, Active, Holding, Distance, Ahead, lockVars
<1> QED BY <1>1, <1>2, <1>3, <1>4, <1>5, <1>6, <1>7, <1>8, Steps

(* lock() of AtomicQueueLock lets in one thread at a time, for any number of threads up to    *)
(* the number of values of its counters, however often they have wrapped.                     *)
THEOREM LockCorrect == Spec => []OneHolder
<1>1. LockInv => OneHolder
  BY LockExcludes
<1> QED BY InitControl, StepControl, InitLock, StepLock, <1>1, PTL DEF Spec
-----------------------------------------------------------------------------
(* The queue and its counters.  A task is behind all the tasks counted before it: its handle  *)
(* is the number of tasks that have run, run or wait in front of it.                          *)

Locked == Control /\ LockInv

Busy == IF current = NoTask THEN 0 ELSE 1
Pushing == IF \E t \in Thread : pc[t] = "push" THEN 1 ELSE 0
Awaiting == {p \in Waits : pc[p] \in {"add_unlock", "wait"}}

QueueInv ==
  /\ queued = progress + (Busy + (Len(queue) + Pushing))
  /\ \A t \in Thread : pc[t] = "push" => handle[t] = progress + (Busy + Len(queue))
  /\ \A i \in 1 .. Len(queue) : queue[i][1] \in Waits =>
       /\ queue[i][1] \in Awaiting /\ queue[i][2] = sent[queue[i][1]]
       /\ handle[queue[i][1]] = progress + (Busy + (i - 1))
  /\ current # NoTask /\ current[1] \in Waits =>
       current[1] \in Awaiting /\ current[2] = sent[current[1]] /\ handle[current[1]] = progress

LEMMA QueueTypes ==
  ASSUME Control
  PROVE  /\ queue \in Seq(Task) /\ Len(queue) \in Nat /\ \A i \in 1 .. Len(queue) : queue[i] \in Task
         /\ queued \in Nat /\ progress \in Nat /\ handle \in [Thread -> Nat]
         /\ current \in Task \cup {NoTask} /\ sent \in [Thread -> 0 .. MaxTask]
         /\ pc \in [Thread -> {"idle", "add_spin", "count", "push", "add_unlock", "wait", "check",
                              "pop", "pop_spin", "front", "pop_unlock", "run", "stopped"}]
         /\ Busy \in {0, 1} /\ Pushing \in {0, 1}
         /\ \A x \in Task : x[1] \in Thread /\ x = <<x[1], x[2]>>
         /\ Worker \in Thread /\ Worker \notin Waits /\ \A p \in Waits : p \in Producer /\ p \in Thread
BY ConstantsAssumption DEF Control, TypeOK, Busy, Pushing, Task, Thread

(* A step that neither pushes, pops, counts nor ends a task. *)
LEMMA MoveQueue ==
  ASSUME Control, QueueInv, NEW t \in Thread, NEW from, NEW to, Goto(t, from, to),
         from # "push", to # "push",
         UNCHANGED <<queue, queued, progress, handle, current>>,
         \A s \in Thread : s # t => sent'[s] = sent[s],
         t \notin Awaiting \/ (sent'[t] = sent[t] /\ to \in {"add_unlock", "wait"})
  PROVE  QueueInv'
<1>1. \A s \in Thread : pc'[s] = (IF s = t THEN to ELSE pc[s]) /\ pc[t] = from
  BY DEF Goto, Control, TypeOK
<1>2. Pushing' = Pushing /\ Busy' = Busy
  BY <1>1 DEF Pushing, Busy
<1>3. \A p \in Waits : p \in Awaiting => p \in Awaiting' /\ sent'[p] = sent[p]
  BY <1>1, QueueTypes DEF Awaiting
<1>4. \A i \in 1 .. Len(queue) : queue[i][1] \in Waits =>
       queue[i][1] \in Awaiting' /\ queue[i][2] = sent'[queue[i][1]]
  BY <1>3 DEF QueueInv
<1>5. current # NoTask /\ current[1] \in Waits => current[1] \in Awaiting' /\ current[2] = sent'[current[1]]
  BY <1>3 DEF QueueInv
<1> QED BY <1>1, <1>2, <1>4, <1>5 DEF QueueInv, Awaiting

LEMMA CountQueue ==
  ASSUME Locked, QueueInv, NEW t \in Thread, Count(t), UNCHANGED <<progress, current, sent>>
  PROVE  QueueInv'
<1>t. Control /\ OneHolder /\ Holding(t) /\ pc[t] = "count"
  BY LockExcludes DEF Locked, Count, Goto, Holding
<1>1. \A s \in Thread : pc'[s] = (IF s = t THEN "push" ELSE pc[s])
  BY <1>t, QueueTypes DEF Count, Goto
<1>2. \A s \in Thread : pc[s] # "push"
  BY <1>t DEF OneHolder, Holding
<1>3. Pushing = 0 /\ Pushing' = 1 /\ Busy' = Busy
  BY <1>1, <1>2 DEF Pushing, Busy, Count
<1>4. handle' = [handle EXCEPT ![t] = queued] /\ queued' = queued + 1 /\ queue' = queue
  BY DEF Count
<1>5. queued' = progress' + (Busy' + (Len(queue') + Pushing'))
  BY <1>t, <1>3, <1>4, QueueTypes DEF QueueInv
<1>6. \A s \in Thread : pc'[s] = "push" => handle'[s] = progress' + (Busy' + Len(queue'))
  BY <1>t, <1>1, <1>2, <1>3, <1>4, QueueTypes DEF QueueInv
<1>7. \A p \in Waits : p \in Awaiting => p \in Awaiting' /\ handle'[p] = handle[p]
  BY <1>t, <1>1, <1>4, QueueTypes DEF Awaiting
<1>8. \A i \in 1 .. Len(queue') : queue'[i][1] \in Waits =>
       /\ queue'[i][1] \in Awaiting' /\ queue'[i][2] = sent'[queue'[i][1]]
       /\ handle'[queue'[i][1]] = progress' + (Busy' + (i - 1))
  BY <1>3, <1>4, <1>7 DEF QueueInv
<1>9. current' # NoTask /\ current'[1] \in Waits =>
       current'[1] \in Awaiting' /\ current'[2] = sent'[current'[1]] /\ handle'[current'[1]] = progress'
  BY <1>7 DEF QueueInv
<1> QED BY <1>5, <1>6, <1>8, <1>9 DEF QueueInv, Awaiting

LEMMA PushQueue ==
  ASSUME Locked, QueueInv, NEW t \in Thread, Push(t), UNCHANGED <<progress, current, sent>>
  PROVE  QueueInv'
<1>t. Control /\ OneHolder /\ Holding(t) /\ pc[t] = "push" /\ PcInv
  BY LockExcludes DEF Locked, Push, Goto, Holding, Control
<1>1. \A s \in Thread : pc'[s] = (IF s = t THEN "add_unlock" ELSE pc[s])
  BY <1>t, QueueTypes DEF Push, Goto
<1>2. \A s \in Thread : s # t => pc[s] # "push"
  BY <1>t DEF OneHolder, Holding
<1>3. Pushing = 1 /\ Pushing' = 0 /\ Busy' = Busy
  BY <1>t, <1>1, <1>2 DEF Pushing, Busy, Push
<1>4. /\ Len(queue') = Len(queue) + 1 /\ queue'[Len(queue) + 1] = <<t, sent[t]>>
      /\ \A i \in 1 .. Len(queue) : queue'[i] = queue[i]
      /\ queued' = queued /\ handle' = handle
  <2>1. <<t, sent[t]>> \in Task /\ queue \in Seq(Task)
    BY <1>t, TaskFacts, QueueTypes
  <2>2. queue' = Append(queue, <<t, sent[t]>>) /\ queued' = queued /\ handle' = handle
    BY DEF Push, Pushed
  <2> QED BY <2>1, <2>2, QueueAppend
<1>5. queued' = progress' + (Busy' + (Len(queue') + Pushing'))
  BY <1>t, <1>3, <1>4, QueueTypes DEF QueueInv
<1>6. \A s \in Thread : pc'[s] # "push"
  BY <1>1, <1>2
<1>7. \A p \in Waits : p \in Awaiting => p \in Awaiting'
  BY <1>1, QueueTypes, <1>t DEF Awaiting
<1>8. \A i \in 1 .. Len(queue') : queue'[i][1] \in Waits =>
       /\ queue'[i][1] \in Awaiting' /\ queue'[i][2] = sent'[queue'[i][1]]
       /\ handle'[queue'[i][1]] = progress' + (Busy' + (i - 1))
  <2> SUFFICES ASSUME NEW i \in 1 .. Len(queue'), queue'[i][1] \in Waits
               PROVE  /\ queue'[i][1] \in Awaiting' /\ queue'[i][2] = sent'[queue'[i][1]]
                      /\ handle'[queue'[i][1]] = progress' + (Busy' + (i - 1))
    OBVIOUS
  <2>1. CASE i \in 1 .. Len(queue)
    BY <1>3, <1>4, <1>7, <2>1 DEF QueueInv
  <2>2. CASE i = Len(queue) + 1
    <3>1. queue'[i] = <<t, sent[t]>> /\ t \in Waits
      BY <1>4, <2>2
    <3>2. t \in Awaiting'
      BY <1>1, <3>1 DEF Awaiting
    <3>3. handle[t] = progress + (Busy + Len(queue))
      BY <1>t DEF QueueInv
    <3>4. handle'[t] = progress' + (Busy' + (i - 1))
      BY <1>t, <1>3, <1>4, <2>2, <3>3, QueueTypes
    <3> QED BY <3>1, <3>2, <3>4
  <2> QED BY <1>t, <1>4, <2>1, <2>2, QueueTypes, SMTT(30)
<1>9. current' # NoTask /\ current'[1] \in Waits =>
       current'[1] \in Awaiting' /\ current'[2] = sent'[current'[1]] /\ handle'[current'[1]] = progress'
  BY <1>4, <1>7 DEF QueueInv
<1> QED BY <1>5, <1>6, <1>8, <1>9 DEF QueueInv, Awaiting

LEMMA PopQueue ==
  ASSUME Locked, QueueInv, FrontAndPop, UNCHANGED <<queued, progress, handle, sent>>
  PROVE  QueueInv'
<1>t. Control /\ OneHolder /\ Holding(Worker) /\ pc[Worker] = "front" /\ current = NoTask
  BY LockExcludes DEF Locked, FrontAndPop, Goto, Holding, Control, PcInv
<1>1. \A s \in Thread : pc'[s] = (IF s = Worker THEN "pop_unlock" ELSE pc[s])
  BY <1>t, QueueTypes DEF FrontAndPop, Goto
<1>2. \A s \in Thread : pc'[s] # "push" /\ pc[s] # "push"
  BY <1>t, <1>1, QueueTypes DEF OneHolder, Holding
<1>3. Pushing = 0 /\ Pushing' = 0 /\ Busy = 0
  BY <1>t, <1>2 DEF Pushing, Busy
<1>7. \A p \in Waits : p \in Awaiting => p \in Awaiting'
  BY <1>1, QueueTypes, <1>t DEF Awaiting
<1>4. CASE queue = << >>
  <2>1. queue' = queue /\ current' = current /\ Busy' = Busy
    BY <1>4 DEF FrontAndPop, Busy
  <2> QED BY <1>t, <1>2, <1>3, <1>7, <2>1 DEF QueueInv, Awaiting
<1>5. CASE queue # << >>
  <2>1. /\ current' \in Task /\ current' = queue[1]
        /\ Len(queue) \in Nat \ {0} /\ Len(queue') = Len(queue) - 1
        /\ \A i \in 1 .. Len(queue') : queue'[i] = queue[i + 1]
    <3>1. queue \in Seq(Task) /\ current' = Head(queue) /\ queue' = Tail(queue)
      BY <1>t, <1>5, QueueTypes DEF FrontAndPop
    <3> QED BY <1>5, <3>1, QueueHead
  <2>2. Busy' = 1
    BY <2>1, NoTaskFact DEF Busy
  <2>3. queued' = progress' + (Busy' + (Len(queue') + Pushing'))
    BY <1>t, <1>3, <2>1, <2>2, QueueTypes DEF QueueInv
  <2>4. \A i \in 1 .. Len(queue') : queue'[i][1] \in Waits =>
         /\ queue'[i][1] \in Awaiting' /\ queue'[i][2] = sent'[queue'[i][1]]
         /\ handle'[queue'[i][1]] = progress' + (Busy' + (i - 1))
    <3> SUFFICES ASSUME NEW i \in 1 .. Len(queue'), queue'[i][1] \in Waits
                 PROVE  /\ queue'[i][1] \in Awaiting' /\ queue'[i][2] = sent'[queue'[i][1]]
                        /\ handle'[queue'[i][1]] = progress' + (Busy' + (i - 1))
      OBVIOUS
    <3>1. i + 1 \in 1 .. Len(queue) /\ queue'[i] = queue[i + 1] /\ i \in Nat
      BY <2>1
    <3>2. /\ queue'[i][1] \in Awaiting /\ queue'[i][2] = sent[queue'[i][1]]
          /\ handle[queue'[i][1]] = progress + (Busy + ((i + 1) - 1))
      BY <3>1 DEF QueueInv
    <3>3. progress + (Busy + ((i + 1) - 1)) = progress + (Busy' + (i - 1))
      BY <1>t, <1>3, <2>2, <3>1, QueueTypes
    <3> QED BY <1>7, <3>2, <3>3
  <2>5. current'[1] \in Waits =>
         current'[1] \in Awaiting' /\ current'[2] = sent'[current'[1]] /\ handle'[current'[1]] = progress'
    <3> SUFFICES ASSUME current'[1] \in Waits
                 PROVE  current'[1] \in Awaiting' /\ current'[2] = sent'[current'[1]]
                        /\ handle'[current'[1]] = progress'
      OBVIOUS
    <3>1. 1 \in 1 .. Len(queue)
      BY <2>1
    <3>2. /\ current'[1] \in Awaiting /\ current'[2] = sent[current'[1]]
          /\ handle[current'[1]] = progress + (Busy + (1 - 1))
      BY <2>1, <3>1 DEF QueueInv
    <3> QED BY <1>t, <1>3, <1>7, <3>2, QueueTypes
  <2> QED BY <1>2, <2>3, <2>4, <2>5 DEF QueueInv, Awaiting
<1> QED BY <1>4, <1>5

LEMMA EndQueue ==
  ASSUME Locked, QueueInv, EndTask
  PROVE  QueueInv'
<1>t. Control /\ pc[Worker] = "run" /\ current # NoTask
  BY DEF Locked, EndTask, Goto, Control, PcInv
<1>1. \A s \in Thread : pc'[s] = (IF s = Worker THEN "check" ELSE pc[s])
  BY <1>t, QueueTypes DEF EndTask, Goto
<1>2. /\ queue' = queue /\ queued' = queued /\ handle' = handle /\ sent' = sent
      /\ progress' = progress + 1 /\ current' = NoTask
  BY DEF EndTask
<1>3. Pushing' = Pushing /\ Busy = 1 /\ Busy' = 0
  BY <1>t, <1>1, <1>2 DEF Pushing, Busy
<1>4. \A p \in Waits : p \in Awaiting => p \in Awaiting'
  BY <1>1, QueueTypes, <1>t DEF Awaiting
<1>6. /\ queued' = progress' + (Busy' + (Len(queue') + Pushing'))
      /\ \A s \in Thread : pc'[s] = "push" => handle'[s] = progress' + (Busy' + Len(queue'))
  <2>1. /\ progress + (Busy + Len(queue)) = progress' + (Busy' + Len(queue'))
        /\ progress + (Busy + (Len(queue) + Pushing)) = progress' + (Busy' + (Len(queue') + Pushing'))
    <3>1. progress \in Nat /\ Len(queue) \in Nat /\ Pushing \in {0, 1}
      BY <1>t, QueueTypes
    <3>2. queue' = queue /\ progress' = progress + 1
      BY <1>2
    <3> QED BY <3>1, <3>2, <1>3
  <2>2. \A s \in Thread : pc'[s] = "push" => pc[s] = "push"
    BY <1>1
  <2> QED BY <1>2, <2>1, <2>2 DEF QueueInv
<1>7. \A i \in 1 .. Len(queue') : queue'[i][1] \in Waits =>
       /\ queue'[i][1] \in Awaiting' /\ queue'[i][2] = sent'[queue'[i][1]]
       /\ handle'[queue'[i][1]] = progress' + (Busy' + (i - 1))
  <2>1. \A i \in 1 .. Len(queue) : progress + (Busy + (i - 1)) = progress' + (Busy' + (i - 1))
    BY <1>t, <1>2, <1>3, QueueTypes
  <2> QED BY <1>2, <1>4, <2>1 DEF QueueInv
<1> QED BY <1>2, <1>6, <1>7 DEF QueueInv, Awaiting

LEMMA InitQueue == Init => QueueInv
<1> SUFFICES ASSUME Init PROVE QueueInv
  OBVIOUS
<1>1. /\ queue = << >> /\ Len(queue) = 0 /\ current = NoTask /\ queued = 0 /\ progress = 0
      /\ \A t \in Thread : pc[t] # "push"
  BY DEF Init
<1>2. Busy = 0 /\ Pushing = 0
  BY <1>1 DEF Busy, Pushing
<1> QED BY <1>1, <1>2 DEF QueueInv

LEMMA StepQueue == Locked /\ QueueInv /\ [Next]_vars => QueueInv'
<1> SUFFICES ASSUME Locked, QueueInv, [Next]_vars PROVE QueueInv'
  OBVIOUS
<1>c. Control /\ Worker \in Thread /\ \A p \in Producer : p \in Thread
  BY DEF Locked, Thread
<1>f. \A t \in Thread : From(t) \in {"run", "idle"} /\ After(t) \in {"run", "wait", "idle"}
                       /\ (t \in Waits => After(t) = "wait")
  BY QueueTypes, <1>c DEF From, After
<1>1. ASSUME NEW t \in Thread, StartAdd(t, From(t)) PROVE QueueInv'
  <2>1. Goto(t, From(t), "add_spin") /\ UNCHANGED <<queue, queued, progress, handle, current>>
        /\ t \notin Awaiting /\ \A s \in Thread : s # t => sent'[s] = sent[s]
    BY <1>1, <1>f, <1>c, QueueTypes DEF StartAdd, LockRequest, Goto, Awaiting
  <2>2. From(t) # "push"
    BY <1>f
  <2> QED BY <1>c, <2>1, <2>2, MoveQueue
<1>2. ASSUME NEW t \in Thread, FinishAdd(t, After(t)) PROVE QueueInv'
  <2>0. UNCHANGED <<progress, current, sent>>
    BY <1>2 DEF FinishAdd
  <2>1. CASE LockAcquire(t, "add_spin", "count") /\ UNCHANGED <<queue, queued, handle>>
    <3>1. Goto(t, "add_spin", "count") /\ t \notin Awaiting
      BY <2>1 DEF LockAcquire, Goto, Awaiting
    <3> QED BY <1>c, <2>0, <2>1, <3>1, MoveQueue
  <2>2. CASE Count(t)
    BY <2>0, <2>2, CountQueue
  <2>3. CASE Push(t)
    BY <2>0, <2>3, PushQueue
  <2>4. CASE Unlock(t, "add_unlock", After(t)) /\ UNCHANGED <<queue, queued, handle>>
    <3>1. Goto(t, "add_unlock", After(t)) /\ (t \notin Awaiting \/ After(t) = "wait")
      BY <2>4, <1>f DEF Unlock, Awaiting
    <3>2. After(t) # "push"
      BY <1>f
    <3> QED BY <1>c, <2>0, <2>4, <3>1, <3>2, MoveQueue
  <2> QED BY <1>2, <2>1, <2>2, <2>3, <2>4 DEF FinishAdd
<1>3. ASSUME NEW p \in Producer, WaitProgress(p) PROVE QueueInv'
  <2>1. /\ \A s \in Thread : pc'[s] = (IF s = p THEN "idle" ELSE pc[s])
        /\ pc[p] = "wait" /\ progress > handle[p] /\ p \in Thread
    BY <1>3, <1>c, QueueTypes DEF WaitProgress, Goto, Done
  <2>2. UNCHANGED <<queue, queued, progress, handle, current, sent>>
    BY <1>3 DEF WaitProgress
  <2>3. Pushing' = Pushing /\ Busy' = Busy
    BY <2>1, <2>2 DEF Pushing, Busy
  <2>4. p \in Waits => (current # NoTask => current[1] # p)
                      /\ \A i \in 1 .. Len(queue) : queue[i][1] # p
    <3>t. /\ queue \in Seq(Task) /\ Len(queue) \in Nat /\ Busy \in {0, 1}
          /\ progress \in Nat /\ handle[p] \in Nat
      BY <1>c, <2>1, QueueTypes
    <3>1. ASSUME p \in Waits, current # NoTask, current[1] = p PROVE FALSE
      <4>1. handle[p] = progress
        BY <3>1 DEF QueueInv
      <4> QED BY <2>1, <3>t, <4>1
    <3>2. ASSUME p \in Waits, NEW i \in 1 .. Len(queue), queue[i][1] = p PROVE FALSE
      <4>1. handle[p] = progress + (Busy + (i - 1))
        BY <3>2 DEF QueueInv
      <4> QED BY <2>1, <3>t, <4>1
    <3> QED BY <3>1, <3>2
  <2>5. \A q \in Waits : q # p /\ q \in Awaiting => q \in Awaiting'
    BY <2>1, QueueTypes, <1>c DEF Awaiting
  <2>6. \A i \in 1 .. Len(queue) : queue[i][1] \in Waits => queue[i][1] \in Awaiting'
    BY <2>4, <2>5 DEF QueueInv
  <2>7. current # NoTask /\ current[1] \in Waits => current[1] \in Awaiting'
    BY <2>4, <2>5 DEF QueueInv
  <2> QED BY <2>1, <2>2, <2>3, <2>6, <2>7 DEF QueueInv, Awaiting
<1>4. CASE CheckExit
  <2>1. PICK to \in {"stopped", "pop"} : Goto(Worker, "check", to)
    BY <1>4 DEF CheckExit
  <2>2. UNCHANGED <<queue, queued, progress, handle, current, sent>> /\ Worker \notin Awaiting
    BY <1>4, <1>c, QueueTypes DEF CheckExit, Awaiting
  <2> QED BY <1>c, <2>1, <2>2, MoveQueue
<1>5. CASE PopTask
  <2>0. UNCHANGED <<queued, progress, handle, sent>> /\ Worker \notin Awaiting
    BY <1>5, <1>c, QueueTypes DEF PopTask, Awaiting
  <2>1. CASE LockRequest(Worker, "pop", "pop_spin") /\ UNCHANGED <<queue, current>>
    BY <1>c, <2>0, <2>1, MoveQueue DEF LockRequest
  <2>2. CASE LockAcquire(Worker, "pop_spin", "front") /\ UNCHANGED <<queue, current>>
    BY <1>c, <2>0, <2>2, MoveQueue DEF LockAcquire
  <2>3. CASE FrontAndPop
    BY <2>0, <2>3, PopQueue
  <2>4. CASE Unlock(Worker, "pop_unlock", AfterPop) /\ UNCHANGED <<queue, current>>
    <3>1. AfterPop # "push"
      BY DEF AfterPop
    <3> QED BY <1>c, <2>0, <2>4, <3>1, MoveQueue DEF Unlock
  <2> QED BY <1>5, <2>1, <2>2, <2>3, <2>4 DEF PopTask
<1>6. CASE EndTask
  BY <1>6, EndQueue
<1>7. CASE Exit
  BY <1>7 DEF Exit, QueueInv, Busy, Pushing, Awaiting
<1>8. CASE UNCHANGED vars
  BY <1>8 DEF vars, lockVars, QueueInv, Busy, Pushing, Awaiting
<1> QED BY <1>1, <1>2, <1>3, <1>4, <1>5, <1>6, <1>7, <1>8, Steps

(* The inductive invariant of WorkerThread. *)
ThreadInv == Locked /\ QueueInv

LEMMA ThreadInvariant == Spec => []ThreadInv
<1>1. Init => ThreadInv
  BY InitControl, InitLock, InitQueue DEF ThreadInv, Locked
<1>2. ThreadInv /\ [Next]_vars => ThreadInv'
  BY StepControl, StepLock, StepQueue DEF ThreadInv, Locked
<1> QED BY <1>1, <1>2, PTL DEF Spec

(* A task on the stack of a waiting producer is neither queued nor run once the producer has  *)
(* returned, for any number of producers and of tasks each of them adds.                      *)
THEOREM TaskFramesLive == Spec => []NoDanglingTask
<1>1. ThreadInv => NoDanglingTask
  BY DEF ThreadInv, QueueInv, NoDanglingTask, Awaiting
<1> QED BY ThreadInvariant, <1>1, PTL
-----------------------------------------------------------------------------
(* The refinement.  A task is added when it is pushed, taken when it is popped, finished when *)
(* progress is counted; the lock, the counter and the spinning are invisible.                 *)

Added == [t \in Thread |-> IF pc[t] \in {"add_spin", "count", "push"} THEN sent[t] - 1 ELSE sent[t]]

LEMMA QueueStep ==
  ASSUME ThreadInv, [Next]_vars
  PROVE  [Queue!Next]_(Queue!vars)
<1> USE DEF Queue!vars
<1>i. Control /\ PcInv /\ QueueInv /\ OneHolder
  BY LockExcludes DEF ThreadInv, Locked, Control
<1>t. /\ pc \in [Thread -> {"idle", "add_spin", "count", "push", "add_unlock", "wait", "check",
                           "pop", "pop_spin", "front", "pop_unlock", "run", "stopped"}]
      /\ sent \in [Thread -> 0 .. MaxTask] /\ progress \in Nat
      /\ \A p \in Waits : p \in Thread /\ p # Worker
  BY <1>i, QueueTypes
<1>w. Worker \in Thread /\ \A p \in Producer : p \in Thread
  BY DEF Thread
<1>f. \A t \in Thread : From(t) \in {"run", "idle"} /\ After(t) \in {"run", "wait", "idle"}
                       /\ (t \in Waits <=> After(t) = "wait")
  BY <1>t DEF From, After
<1>q. Queue!Thread = Thread
  BY DEF Queue!Thread, Thread
(* A step invisible in the queue. *)
<1>s. ASSUME queue' = queue, current' = current, Added' = Added, Awaiting' = Awaiting
      PROVE  [Queue!Next]_(Queue!vars)
  BY <1>s DEF Added, Awaiting
<1>g. ASSUME NEW t \in Thread, NEW from, NEW to, Goto(t, from, to), sent' = sent,
             from \in {"add_spin", "count", "push"} <=> to \in {"add_spin", "count", "push"},
             t \in Waits => (from \in {"add_unlock", "wait"} <=> to \in {"add_unlock", "wait"})
      PROVE  Added' = Added /\ Awaiting' = Awaiting
  <2>1. \A s \in Thread : pc'[s] = (IF s = t THEN to ELSE pc[s]) /\ pc[t] = from
    BY <1>g, <1>t DEF Goto
  <2> QED BY <1>g, <2>1, <1>t DEF Added, Awaiting
<1>1. ASSUME NEW t \in Thread, StartAdd(t, From(t)) PROVE [Queue!Next]_(Queue!vars)
  <2>1. /\ \A s \in Thread : pc'[s] = (IF s = t THEN "add_spin" ELSE pc[s])
        /\ \A s \in Thread : sent'[s] = (IF s = t THEN sent[s] + 1 ELSE sent[s])
        /\ pc[t] \in {"run", "idle"} /\ queue' = queue /\ current' = current
    BY <1>1, <1>t, <1>f DEF StartAdd, LockRequest, Goto
  <2>2. Added' = Added
    <3>1. \A s \in Thread : Added'[s] = Added[s]
      BY <2>1, <1>t DEF Added
    <3> QED BY <3>1 DEF Added
  <2>3. Awaiting' = Awaiting
    BY <2>1, <1>t DEF Awaiting
  <2> QED BY <2>1, <2>2, <2>3, <1>s
<1>2. ASSUME NEW t \in Thread, FinishAdd(t, After(t)) PROVE [Queue!Next]_(Queue!vars)
  <2>0. current' = current /\ sent' = sent
    BY <1>2 DEF FinishAdd
  <2>1. CASE LockAcquire(t, "add_spin", "count") /\ UNCHANGED <<queue, queued, handle>>
    BY <2>0, <2>1, <1>g, <1>s DEF LockAcquire
  <2>2. CASE Count(t)
    BY <2>0, <2>2, <1>g, <1>s DEF Count
  <2>3. CASE Push(t)
    <3>1. /\ \A s \in Thread : pc'[s] = (IF s = t THEN "add_unlock" ELSE pc[s])
          /\ pc[t] = "push" /\ queue' = Append(queue, <<t, sent[t]>>)
      BY <2>3, <1>t DEF Push, Goto, Pushed
    <3>2. Added[t] + 1 = sent[t]
      BY <3>1, <1>t DEF Added
    <3>3. Added' = [Added EXCEPT ![t] = @ + 1]
      <4>1. \A s \in Thread : Added'[s] = (IF s = t THEN Added[s] + 1 ELSE Added[s])
        BY <2>0, <3>1, <3>2, <1>t DEF Added
      <4> QED BY <4>1 DEF Added
    <3>4. Awaiting' = Awaiting \cup ({t} \cap Waits)
      BY <3>1, <1>t DEF Awaiting
    <3>5. t \notin Awaiting /\ (t = Worker => current # NoTask)
      BY <3>1, <1>i DEF Awaiting, PcInv, AddLabels
    <3>6. Queue!Add(t)
      BY <2>0, <3>1, <3>2, <3>3, <3>4, <3>5 DEF Queue!Add, Added, Awaiting
    <3> QED BY <3>6, <1>q DEF Queue!Next
  <2>4. CASE Unlock(t, "add_unlock", After(t)) /\ UNCHANGED <<queue, queued, handle>>
    <3>1. Added' = Added /\ Awaiting' = Awaiting
      BY <2>0, <2>4, <1>f, <1>g DEF Unlock
    <3> QED BY <2>0, <2>4, <3>1, <1>s
  <2> QED BY <1>2, <2>1, <2>2, <2>3, <2>4 DEF FinishAdd
<1>3. ASSUME NEW p \in Producer, WaitProgress(p) PROVE [Queue!Next]_(Queue!vars)
  <2>1. /\ \A s \in Thread : pc'[s] = (IF s = p THEN "idle" ELSE pc[s])
        /\ pc[p] = "wait" /\ progress > handle[p] /\ p \in Thread /\ p \in Waits
        /\ UNCHANGED <<queue, current, sent>>
    BY <1>3, <1>i, <1>t, <1>w DEF WaitProgress, Goto, Done, PcInv
  <2>2. Added' = Added /\ Awaiting' = Awaiting \ {p} /\ p \in Awaiting
    BY <2>1, <1>t DEF Added, Awaiting
  <2>3. \A i \in 1 .. Len(queue) : queue[i] # <<p, sent[p]>>
    <3> SUFFICES ASSUME NEW i \in 1 .. Len(queue), queue[i] = <<p, sent[p]>> PROVE FALSE
      OBVIOUS
    <3>1. handle[p] = progress + (Busy + (i - 1))
      BY <1>i, <2>1 DEF QueueInv
    <3>2. Busy \in {0, 1} /\ Len(queue) \in Nat
      BY <1>i, QueueTypes
    <3> QED BY <2>1, <3>1, <3>2, <1>t
  <2>4. current # <<p, sent[p]>>
    <3> SUFFICES ASSUME current = <<p, sent[p]>> PROVE FALSE
      OBVIOUS
    <3>1. current # NoTask
      <4>1. p \in Thread /\ sent[p] \in 1 .. MaxTask
        <5>1. sent[p] >= 1 /\ sent[p] \in 0 .. MaxTask /\ MaxTask \in Nat
          BY <1>i, <1>t, <2>1, ConstantsAssumption DEF PcInv
        <5> QED BY <2>1, <5>1
      <4>2. <<p, sent[p]>> \in Task
        BY <4>1 DEF Task
      <4> QED BY <4>2, NoTaskFact
    <3>2. handle[p] = progress
      BY <1>i, <2>1, <3>1 DEF QueueInv
    <3> QED BY <2>1, <3>2, <1>t
  <2>5. Added[p] = sent[p]
    BY <2>1 DEF Added
  <2>6. Queue!Return(p)
    BY <2>1, <2>2, <2>3, <2>4, <2>5 DEF Queue!Return, Added, Awaiting
  <2> QED BY <2>1, <2>6 DEF Queue!Next
<1>4. CASE CheckExit
  <2>1. PICK to \in {"stopped", "pop"} : Goto(Worker, "check", to)
    BY <1>4 DEF CheckExit
  <2>2. queue' = queue /\ current' = current /\ sent' = sent
    BY <1>4 DEF CheckExit
  <2>3. Added' = Added /\ Awaiting' = Awaiting
    BY <1>w, <2>1, <2>2, <1>g
  <2> QED BY <2>2, <2>3, <1>s
<1>5. CASE PopTask
  <2>0. sent' = sent
    BY <1>5 DEF PopTask
  <2>1. CASE LockRequest(Worker, "pop", "pop_spin") /\ UNCHANGED <<queue, current>>
    BY <2>0, <2>1, <1>w, <1>g, <1>s DEF LockRequest
  <2>2. CASE LockAcquire(Worker, "pop_spin", "front") /\ UNCHANGED <<queue, current>>
    BY <2>0, <2>2, <1>w, <1>g, <1>s DEF LockAcquire
  <2>3. CASE FrontAndPop
    <3>1. pc[Worker] = "front" /\ Added' = Added /\ Awaiting' = Awaiting
      <4>1. Goto(Worker, "front", "pop_unlock")
        BY <2>3 DEF FrontAndPop
      <4>2. Added' = Added /\ Awaiting' = Awaiting
        BY <2>0, <4>1, <1>w, <1>g
      <4> QED BY <4>1, <4>2 DEF Goto
    <3>2. CASE queue = << >>
      BY <2>3, <3>1, <3>2, <1>s DEF FrontAndPop
    <3>3. CASE queue # << >>
      <4>1. current = NoTask
        BY <3>1, <1>i DEF PcInv
      <4>2. Queue!Take
        BY <2>3, <3>1, <3>3, <4>1 DEF FrontAndPop, Queue!Take, Added, Awaiting
      <4> QED BY <4>2 DEF Queue!Next
    <3> QED BY <3>2, <3>3
  <2>4. CASE Unlock(Worker, "pop_unlock", AfterPop) /\ UNCHANGED <<queue, current>>
    <3>1. AfterPop \in {"check", "run"}
      BY DEF AfterPop
    <3>2. Added' = Added /\ Awaiting' = Awaiting
      BY <2>0, <2>4, <3>1, <1>w, <1>g DEF Unlock
    <3> QED BY <2>4, <3>2, <1>s
  <2> QED BY <1>5, <2>1, <2>2, <2>3, <2>4 DEF PopTask
<1>6. CASE EndTask
  <2>1. Goto(Worker, "run", "check") /\ UNCHANGED <<queue, sent>> /\ current' = NoTask
    BY <1>6 DEF EndTask
  <2>2. current # NoTask
    BY <2>1, <1>i DEF PcInv, Goto
  <2>3. Added' = Added /\ Awaiting' = Awaiting
    BY <2>1, <1>w, <1>g
  <2>4. Queue!Finish
    BY <2>1, <2>2, <2>3 DEF Queue!Finish, Added, Awaiting
  <2> QED BY <2>4 DEF Queue!Next
<1>7. CASE Exit
  BY <1>7, <1>s DEF Exit, Added, Awaiting
<1>8. CASE UNCHANGED vars
  BY <1>8, <1>s DEF vars, lockVars, Added, Awaiting
<1> QED BY <1>1, <1>2, <1>3, <1>4, <1>5, <1>6, <1>7, <1>8, Steps

LEMMA QueueInit == Init => Queue!Init
<1> SUFFICES ASSUME Init PROVE Queue!Init
  OBVIOUS
<1>1. /\ queue = << >> /\ current = NoTask
      /\ \A t \in Thread : sent[t] = 0
      /\ \A t \in Thread : pc[t] \in {"check", "idle"}
  BY DEF Init
<1>2. {p \in Waits : pc[p] \in {"add_unlock", "wait"}} = {}
  BY <1>1, ConstantsAssumption DEF Thread
<1> QED BY <1>1, <1>2 DEF Queue!Init, Queue!Thread, Thread

(* WorkerThreadSpin with its lock, its two counters and its spinning producers implements a   *)
(* first-in first-out queue with atomic operations, whose waiting clients go on only when     *)
(* their task has run.                                                                        *)
THEOREM WorkerThreadImplementsTaskQueue == Spec => ImplementsTaskQueue
<1>1. Spec => []ThreadInv
  BY ThreadInvariant
<1>2. ThreadInv /\ [Next]_vars => [Queue!Next]_(Queue!vars)
  BY QueueStep
<1> QED BY <1>1, <1>2, QueueInit, PTL DEF Spec, ImplementsTaskQueue, Queue!Spec
=============================================================================

---------------------------- MODULE WorkerThread ----------------------------
(***************************************************************************)
(* WorkerThreadSpin of worker.hpp with the AtomicQueueLock of utils.hpp:   *)
(* several threads add tasks, the worker thread runs them and may add      *)
(* tasks of its own from a handler.  Some producers wait for the end of    *)
(* the task, which lives on their stack; the tasks of the others outlive   *)
(* the call.  One action is one access to shared memory.                   *)
(***************************************************************************)
EXTENDS Integers, Sequences, FiniteSets

CONSTANTS
  Producer,     \* the threads that add tasks
  Waits,        \* the producers that call wait_progress after add_one_task
  Worker,       \* the worker thread
  NoTask,
  TicketRange,  \* how many values num_req and num_locked have (2^32 for an atomic_int)
  MaxTask       \* bound: tasks a thread adds

Thread == Producer \cup {Worker}
Task == Thread \X (1 .. MaxTask)

ASSUME ConstantsAssumption ==
  /\ Waits \subseteq Producer /\ Worker \notin Producer
  /\ IsFiniteSet(Producer)
  /\ MaxTask \in Nat /\ NoTask \notin Task
  /\ TicketRange \in Nat /\ Cardinality(Thread) <= TicketRange

VARIABLES
  pc,           \* where a thread is
  num_req, num_locked, ticket,     \* the lock, and the local handle of lock()
  queue, queued, progress, handle, \* the queue, and what add_one_task returned
  current,      \* current_task of thread_func
  sent,         \* number of tasks a thread has created; its last task is <<thread, sent>>
  exit_mark

lockVars == <<num_req, num_locked, ticket>>
vars == <<pc, lockVars, queue, queued, progress, handle, current, sent, exit_mark>>

Init ==
  /\ pc = [t \in Thread |-> IF t = Worker THEN "check" ELSE "idle"]
  /\ num_req = 0 /\ num_locked = 0 /\ ticket = [t \in Thread |-> 0]
  /\ queue = << >> /\ queued = 0 /\ progress = 0 /\ handle = [t \in Thread |-> 0]
  /\ current = NoTask
  /\ sent = [t \in Thread |-> 0]
  /\ exit_mark = FALSE

Goto(t, from, to) == pc[t] = from /\ pc' = [pc EXCEPT ![t] = to]
-----------------------------------------------------------------------------
(* AtomicQueueLock *)

(* fetch_add(1) on an atomic_int *)
NextTicket(n) == IF n = TicketRange - 1 THEN 0 ELSE n + 1

LockRequest(t, from, to) ==
  /\ Goto(t, from, to)
  /\ ticket' = [ticket EXCEPT ![t] = num_req]
  /\ num_req' = NextTicket(num_req)
  /\ UNCHANGED num_locked

(* Mutation of Granted: the spin ends when the ticket has been reached or passed. *)
GrantedFrom(t) == num_locked <= ticket[t]

Granted(t) == num_locked = ticket[t]

LockAcquire(t, from, to) ==
  /\ Goto(t, from, to)
  /\ Granted(t)
  /\ UNCHANGED lockVars

Unlock(t, from, to) ==
  /\ Goto(t, from, to)
  /\ num_locked' = NextTicket(num_locked)
  /\ UNCHANGED <<num_req, ticket>>
-----------------------------------------------------------------------------
(* add_one_task, from the moment the task exists *)

(* ret = queued++ *)
Count(t) ==
  /\ Goto(t, "count", "push")
  /\ handle' = [handle EXCEPT ![t] = queued]
  /\ queued' = queued + 1
  /\ UNCHANGED <<lockVars, queue>>

(* Mutation of Pushed: the queue is a stack. *)
PushedFirst(t) == <<<<t, sent[t]>>>> \o queue

Pushed(t) == Append(queue, <<t, sent[t]>>)

Push(t) ==
  /\ Goto(t, "push", "add_unlock")
  /\ queue' = Pushed(t)
  /\ UNCHANGED <<lockVars, queued, handle>>

StartAdd(t, from) ==
  /\ sent[t] < MaxTask
  /\ LockRequest(t, from, "add_spin")
  /\ sent' = [sent EXCEPT ![t] = @ + 1]
  /\ UNCHANGED <<queue, queued, progress, handle, current, exit_mark>>

FinishAdd(t, to) ==
  /\ \/ LockAcquire(t, "add_spin", "count") /\ UNCHANGED <<queue, queued, handle>>
     \/ Count(t)
     \/ Push(t)
     \/ Unlock(t, "add_unlock", to) /\ UNCHANGED <<queue, queued, handle>>
  /\ UNCHANGED <<progress, current, sent, exit_mark>>
-----------------------------------------------------------------------------
(* A producer *)

(* A waiting producer is a thread of the same PrefetchMngr: it adds nothing once exit is called. *)
StartTask(p) ==
  /\ p \in Waits => ~exit_mark
  /\ StartAdd(p, "idle")

(* Mutations of Done: the wait ends when the handler starts, or after one task more. *)
DoneEarly(p) == progress >= handle[p]
DoneLate(p) == progress > handle[p] + 1

Done(p) == progress > handle[p]

WaitProgress(p) ==
  /\ Goto(p, "wait", "idle")
  /\ Done(p)
  /\ UNCHANGED <<lockVars, queue, queued, progress, handle, current, sent, exit_mark>>

ProducerStep(p) ==
  StartTask(p) \/ FinishAdd(p, IF p \in Waits THEN "wait" ELSE "idle") \/ WaitProgress(p)
-----------------------------------------------------------------------------
(* The worker thread *)

(* Mutation of Stopping: only a worker with something to do looks at the exit mark. *)
StoppingBusy == exit_mark /\ queue # << >>

Stopping == exit_mark

CheckExit ==
  /\ Goto(Worker, "check", IF Stopping THEN "stopped" ELSE "pop")
  /\ UNCHANGED <<lockVars, queue, queued, progress, handle, current, sent, exit_mark>>

FrontAndPop ==
  /\ Goto(Worker, "front", "pop_unlock")
  /\ IF queue = << >> THEN UNCHANGED <<queue, current>>
     ELSE current' = Head(queue) /\ queue' = Tail(queue)
  /\ UNCHANGED lockVars

AfterPop == IF current = NoTask THEN "check" ELSE "run"

PopTask ==
  /\ \/ LockRequest(Worker, "pop", "pop_spin") /\ UNCHANGED <<queue, current>>
     \/ LockAcquire(Worker, "pop_spin", "front") /\ UNCHANGED <<queue, current>>
     \/ FrontAndPop
     \/ Unlock(Worker, "pop_unlock", AfterPop) /\ UNCHANGED <<queue, current>>
  /\ UNCHANGED <<queued, progress, handle, sent, exit_mark>>

(* The handler ends, and progress.fetch_add(1). *)
EndTask ==
  /\ Goto(Worker, "run", "check")
  /\ current' = NoTask
  /\ progress' = progress + 1
  /\ UNCHANGED <<lockVars, queue, queued, handle, sent, exit_mark>>

(* A handler may add a task before it ends (IdleTask, FetchDoneTask). *)
WorkerStep == CheckExit \/ PopTask \/ StartAdd(Worker, "run") \/ FinishAdd(Worker, "run") \/ EndTask

(* exit(), called when no thread waits any more. *)
Exit ==
  /\ ~exit_mark /\ \A p \in Waits : pc[p] = "idle"
  /\ exit_mark' = TRUE
  /\ UNCHANGED <<pc, lockVars, queue, queued, progress, handle, current, sent>>

Next == (\E p \in Producer : ProducerStep(p)) \/ WorkerStep \/ Exit
Spec == Init /\ [][Next]_vars

(* Every thread is scheduled; a thread that has started to add a task goes on. *)
Fairness ==
  /\ \A p \in Producer : WF_vars(pc[p] # "idle" /\ ProducerStep(p))
  /\ WF_vars(WorkerStep)
FairSpec == Spec /\ Fairness
-----------------------------------------------------------------------------
TypeOK ==
  /\ pc \in [Thread -> {"idle", "add_spin", "count", "push", "add_unlock", "wait", "check",
                        "pop", "pop_spin", "front", "pop_unlock", "run", "stopped"}]
  /\ num_req \in 0 .. (TicketRange - 1) /\ num_locked \in 0 .. (TicketRange - 1)
  /\ ticket \in [Thread -> 0 .. (TicketRange - 1)]
  /\ queue \in Seq(Task) /\ queued \in Nat /\ progress \in Nat /\ handle \in [Thread -> Nat]
  /\ current \in Task \cup {NoTask}
  /\ sent \in [Thread -> 0 .. MaxTask]
  /\ exit_mark \in BOOLEAN

(* The lines between lock() and unlock(). *)
Holding(t) == pc[t] \in {"count", "push", "add_unlock", "front", "pop_unlock"}

(* AtomicQueueLock lets one thread in at a time, also after its counters have wrapped. *)
OneHolder == \A s, t \in Thread : Holding(s) /\ Holding(t) => s = t

(* Every task the worker holds a pointer to still lives: the frame of a producer that waits   *)
(* for its task is left neither before the handler has run nor while it runs.                 *)
NoDanglingTask ==
  \A p \in Waits :
    /\ \A i \in 1 .. Len(queue) : queue[i][1] = p => pc[p] # "idle" /\ queue[i][2] = sent[p]
    /\ current # NoTask /\ current[1] = p => pc[p] # "idle" /\ current[2] = sent[p]

(* wait_progress returns. *)
WaitReturns == \A p \in Waits : pc[p] = "wait" ~> pc[p] = "idle"

(* exit() joins the worker thread, also when tasks are left in the queue. *)
ExitJoins == exit_mark ~> pc[Worker] = "stopped"

Queue == INSTANCE TaskQueue WITH
  running <- current,
  sent    <- [t \in Thread |-> IF pc[t] \in {"add_spin", "count", "push"} THEN sent[t] - 1
                               ELSE sent[t]],
  waiting <- {p \in Waits : pc[p] \in {"add_unlock", "wait"}}

(* The lock, the counters and the spinning implement an atomic first-in first-out queue whose *)
(* clients go on only after their task has run.                                               *)
ImplementsTaskQueue == Queue!Spec
=============================================================================

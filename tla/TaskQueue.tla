----------------------------- MODULE TaskQueue -----------------------------
(***************************************************************************)
(* What a worker thread promises to the threads that add tasks to it, and  *)
(* what the queues of module Prefetcher take for granted: tasks are run    *)
(* one at a time in the order they were added, and a thread that waits for *)
(* its task goes on only after the task has run.                           *)
(***************************************************************************)
EXTENDS Naturals, Sequences

CONSTANTS Producer, Waits, Worker, NoTask

Thread == Producer \cup {Worker}

VARIABLES
  queue,     \* tasks added and not taken, a task being <<thread, how many it added so far>>
  running,   \* the task the worker runs
  sent,      \* thread -> number of tasks it has added
  waiting    \* the producers that wait for the task they added last

vars == <<queue, running, sent, waiting>>

Init ==
  /\ queue = << >> /\ running = NoTask
  /\ sent = [t \in Thread |-> 0]
  /\ waiting = {}

Add(t) ==
  /\ t \notin waiting
  /\ t = Worker => running # NoTask
  /\ queue' = Append(queue, <<t, sent[t] + 1>>)
  /\ sent' = [sent EXCEPT ![t] = @ + 1]
  /\ waiting' = waiting \cup ({t} \cap Waits)
  /\ UNCHANGED running

Take ==
  /\ running = NoTask /\ queue # << >>
  /\ running' = Head(queue) /\ queue' = Tail(queue)
  /\ UNCHANGED <<sent, waiting>>

Finish ==
  /\ running # NoTask
  /\ running' = NoTask
  /\ UNCHANGED <<queue, sent, waiting>>

Return(p) ==
  /\ p \in waiting
  /\ running # <<p, sent[p]>> /\ \A i \in 1 .. Len(queue) : queue[i] # <<p, sent[p]>>
  /\ waiting' = waiting \ {p}
  /\ UNCHANGED <<queue, running, sent>>

Next == (\E t \in Thread : Add(t)) \/ Take \/ Finish \/ \E p \in Waits : Return(p)
Spec == Init /\ [][Next]_vars
=============================================================================

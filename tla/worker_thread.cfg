CONSTANTS
  Producer = {p1, p2}
  Waits = {p1}
  Worker = worker
  NoTask = NoTask
  TicketRange = 3
  MaxTask = 2
SPECIFICATION FairSpec
INVARIANT OneHolder
INVARIANT NoDanglingTask
PROPERTY ImplementsTaskQueue
PROPERTY WaitReturns
PROPERTY ExitJoins
CHECK_DEADLOCK FALSE

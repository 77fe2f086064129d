CONSTANTS
  NumLayer = 2
  ExpertIdx = {e1, e2}
  NumPerExpertParam = 2
  EarlyPreempt = TRUE
  ReorderExperts = TRUE
  ChunkPrefetch = TRUE
  PerLayerCache = TRUE
  SlotLen <- TwoThenOne
  NumPredict <- PredictOne
  MaxActive = 2
  MaxPrefetchLayerDistance = 1
  PredictRange <- PerIteration
  MaxIter = 2
  NoExpert = NoExpert
  NoBuffer = NoBuffer
SPECIFICATION FairSpec
INVARIANT TypeOK
INVARIANT NoPinLeak
INVARIANT OneJobInFlight
INVARIANT PrefetchWindow
INVARIANT AwaitedServed
INVARIANT OnlyLateThreadsAbort
PROPERTY ImplementsExecution
PROPERTY HookFinishes
CHECK_DEADLOCK FALSE

CONSTANTS
  NumLayer = 3
  ExpertIdx = {e1, e2}
  NumPerExpertParam = 1
  EarlyPreempt = TRUE
  ReorderExperts = FALSE
  ChunkPrefetch = FALSE
  PerLayerCache = TRUE
  SlotLen <- OneBuffer
  NumPredict <- PredictOne
  MaxActive = 1
  MaxPrefetchLayerDistance = 1
  PredictRange <- PerIteration
  MaxIter = 1
  NoExpert = NoExpert
  NoBuffer = NoBuffer
SPECIFICATION SpecShutdown
INVARIANT NoOrphanWait
PROPERTY DestructorReturns
CHECK_DEADLOCK FALSE

CONSTANTS
  NumLayer = 2
  ExpertIdx = {e1, e2, e3}
  NumPerExpertParam = 2
  EarlyPreempt = TRUE
  ReorderExperts = FALSE
  ChunkPrefetch = TRUE
  PerLayerCache = TRUE
  SlotLen <- TwoThenOne
  NumPredict <- PredictOne
  MaxActive = 2
  MaxPrefetchLayerDistance = 1
  PredictRange <- PerIteration
  MaxIter = 2
  NoExpert = NoExpert
  NoBuffer = NoBuffer
SPECIFICATION Spec
INVARIANT AwaitedServed
CHECK_DEADLOCK FALSE

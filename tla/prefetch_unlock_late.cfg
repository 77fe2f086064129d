CONSTANTS
  NumLayer = 2
  ExpertIdx = {e1, e2}
  NumPerExpertParam = 2
  EarlyPreempt = TRUE
  ReorderExperts = TRUE
  ChunkPrefetch = TRUE
  PerLayerCache = TRUE
  SlotLen <- OneBuffer
  NumPredict <- PredictOne
  MaxActive = 2
  MaxPrefetchLayerDistance = 1
  PredictRange <- PerIteration
  MaxIter = 2
  NoExpert = NoExpert
  NoBuffer = NoBuffer
SPECIFICATION Spec
INVARIANT FetchedExpertIsReady
CHECK_DEADLOCK FALSE

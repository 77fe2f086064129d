CONSTANTS
  NumLayer = 2
  ExpertIdx = {e1, e2}
  NumPerExpertParam = 2
  EarlyPreempt = TRUE
  ReorderExperts = TRUE
  ChunkPrefetch = TRUE
  PerLayerCache = FALSE
  SlotLen <- TwoBuffers
  NumPredict <- PredictOne
  MaxActive = 2
  MaxPrefetchLayerDistance = 2
  PredictRange <- PerIteration
  MaxIter = 2
  NoExpert = NoExpert
  NoBuffer = NoBuffer
SPECIFICATION Spec
INVARIANT FirstChunkFirst
CHECK_DEADLOCK FALSE

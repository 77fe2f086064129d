CONSTANTS
  NumLayer = 2
  ExpertIdx = {e1, e2}
  NumPerExpertParam = 2
  EarlyPreempt = FALSE
  ReorderExperts = FALSE
  ChunkPrefetch = TRUE
  PerLayerCache = TRUE
  SlotLen <- OneBuffer
  NumPredict <- PredictOne
  MaxActive = 2
  MaxPrefetchLayerDistance = 1
  PredictRange <- PerLayer
  MaxIter = 2
  NoExpert = NoExpert
  NoBuffer = NoBuffer
SPECIFICATION FairSpec
PROPERTY HookFinishes
CHECK_DEADLOCK FALSE

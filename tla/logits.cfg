CONSTANTS
  NumLayer = 3
  ExpertIdx = {e1, e2}
  NumPerExpertParam = 1
  EarlyPreempt = TRUE
  ReorderExperts = FALSE
  ChunkPrefetch = FALSE
  PerLayerCache = TRUE
  SlotLen <- OneBuffer
  NumPredict <- PredictOne
  MaxActive = 1
  MaxPrefetchLayerDistance = 2
  PredictRange <- MappedLayers
  MaxIter = 2
  NoExpert = NoExpert
  NoBuffer = NoBuffer
  SepPredictor = TRUE
  ReplaceFirst = TRUE
SPECIFICATION SpecLogits
INVARIANT PredictedForThisIteration
PROPERTY NoLogitsOverwritten
CHECK_DEADLOCK FALSE

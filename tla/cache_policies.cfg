CONSTANTS
  NumLayer = 2
  ExpertIdx = {e1, e2}
  NumPerExpertParam = 2
  EarlyPreempt = TRUE
  ReorderExperts = TRUE
  ChunkPrefetch = TRUE
  PerLayerCache = FALSE
  SlotLen <- ThreeBuffers
  NumPredict <- PredictOne
  MaxActive = 2
  MaxPrefetchLayerDistance = 1
  PredictRange <- PerIteration
  MaxIter = 2
  NoExpert = NoExpert
  NoBuffer = NoBuffer
  Policies = {"lru", "static", "min", "nn"}
  MaxAlternativeBufferLen = 1
  MaxProb = 1
  FloatLimit = 8
  PromoteHitInPrefetch = TRUE
SPECIFICATION SpecPolicies
INVARIANT PolicyTracksCache
INVARIANT OneAccessPerActivation
INVARIANT LaunchedSpared
PROPERTY UseTimesAscend
PROPERTY UpdatesUndisturbed
SYMMETRY ExpertSymmetry
CHECK_DEADLOCK FALSE

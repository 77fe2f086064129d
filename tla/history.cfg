CONSTANTS
  NumLayer = 2
  ExpertIdx = {e1, e2}
  NumPerExpertParam = 1
  EarlyPreempt = TRUE
  ReorderExperts = FALSE
  ChunkPrefetch = FALSE
  PerLayerCache = TRUE
  SlotLen <- TwoBuffers
  NumPredict <- PredictNone
  MaxActive = 2
  MaxPrefetchLayerDistance = 2
  PredictRange <- PerIteration
  MaxIter = 3
  NoExpert = NoExpert
  NoBuffer = NoBuffer
  InputModes = {"kOneToken", "kDecodeCumsum"}
  NumExpertPerToken = 1
SPECIFICATION SpecHistory
PROPERTY WholeTokens
PROPERTY OneTokenAtMost
SYMMETRY ExpertSymmetry
CHECK_DEADLOCK FALSE

CONSTANTS
  Elem = {x1, x2}
  InitialSize = 2
  MaxSize = 8
  NoElem = NoElem
  ListNode = {n1, n2, n3, n4}
  GuardHead = GuardHead
  GuardTail = GuardTail
  Null = Null
  Node = {h1, h2, h3, h4}
  MaxPriority = 2
  MaxSlot = 12
  MaxBuffers = 2
  MaxLayer = 4
  MaxWindow = 3
  NumExperts = 2
  NumParam = 2
  MaxBytes = 3
  MaxMems = 2
  Granularity = 2
  DummyUnit = 2
  ModuleKey = {m1, m2, m3}
  NoModule = NoModule
  CacheLen = 2
  MaxTime = 3
  MaxSequence = 2
  MaxForward = 4
SPECIFICATION Spec
INVARIANT ListLinked
INVARIANT NodesKnowPlace
INVARIANT FrontIsLeast
INVARIANT BuffersDistributed
INVARIANT PredictedOnce
INVARIANT DefaultsServe
INVARIANT JobPostsItsLayers
INVARIANT ReadWhereCopied
INVARIANT ModulesServed
PROPERTY QueueIsFifo
PROPERTY ListInOrder
PROPERTY TraversalEnds
CHECK_DEADLOCK FALSE

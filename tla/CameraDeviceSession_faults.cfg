SPECIFICATION FairSpec
CONSTANTS
  b1 = b1
  b2 = b2
  b3 = b3
  v1 = v1
  v2 = v2
  NoBuffer = NoBuffer
  Requests <- TwoStills
  PreviewBuffers <- TwoPreviews
  Index <- TwoBuffers
  Backends <- FaultyBackends
  StreamBase = 1000
  QueueCapacity = 4
  MaxStarts = 1
  MaxPreviews = 2
INVARIANTS RequestConserved NoReturnWhileQueued PreviewExclusive
PROPERTY AnsweredUnlessDropped
CHECK_DEADLOCK FALSE

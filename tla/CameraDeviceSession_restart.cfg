SPECIFICATION Spec
CONSTANTS
  b1 = b1
  b2 = b2
  b3 = b3
  v1 = v1
  v2 = v2
  NoBuffer = NoBuffer
  Requests <- TwoStills
  PreviewBuffers <- OnePreview
  Index <- TwoBuffers
  Backends <- OneNode
  StreamBase = 1000
  QueueCapacity = 2
  MaxStarts = 2
  MaxPreviews = 2
INVARIANT PreviewExclusive
CHECK_DEADLOCK FALSE

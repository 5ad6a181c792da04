SPECIFICATION FairSpec
CONSTANTS
  b1 = b1
  b2 = b2
  b3 = b3
  v1 = v1
  v2 = v2
  NoBuffer = NoBuffer
  Requests <- TwoStills
  PreviewBuffers <- NoPreview
  Index <- TwoBuffers
  Backends <- OneNode
  StreamBase = 1000
  QueueCapacity = 1
  MaxStarts = 1
  MaxPreviews = 0
PROPERTY AcceptedAnswered
CHECK_DEADLOCK FALSE

SPECIFICATION Spec
CONSTANTS
  b1 = b1
  b2 = b2
  b3 = b3
  v1 = v1
  v2 = v2
  NoBuffer = NoBuffer
  Requests <- TwoOutputs
  PreviewBuffers <- NoPreview
  Index <- ThreeBuffers
  Backends <- OneNodeFence
  StreamBase = 1000
  QueueCapacity = 2
  MaxStarts = 1
  MaxPreviews = 0
INVARIANT NoReturnWhileQueued
CHECK_DEADLOCK FALSE

SPECIFICATION Spec
CONSTANTS
  b1 = b1
  b2 = b2
  b3 = b3
  v1 = v1
  v2 = v2
  NoBuffer = NoBuffer
  Requests <- TwoOutputs
  PreviewBuffers <- OnePreview
  Index <- ThreeBuffers
  Backends <- AllBackends
  StreamBase = 1000
  QueueCapacity = 2
  MaxStarts = 3
  MaxPreviews = 2
INVARIANTS TypeOK BindingsResolve RowsBacked RequestConserved NoReturnWhileQueued
CHECK_DEADLOCK FALSE

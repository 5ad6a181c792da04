SPECIFICATION FairSpec
CONSTANTS
  NoBuffer = NoBuffer
  NoId = NoId
  Options <- MCOptions
  BufferCount = 2
  PreviewBase = 4
  Faults = {"reject", "submit", "requeue", "pipe", "encode"}
INVARIANTS TypeOK EncoderExclusive EncodesOwnBuffer ImageWritten Accounted
CHECK_DEADLOCK FALSE
PROPERTIES CliProgress LeaseReturned

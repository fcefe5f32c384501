SPECIFICATION FairSpec
CONSTANTS
  s1 = s1
  s2 = s2
  b1 = b1
  b2 = b2
  None = None
  Streams <- MCStreams
  Buffers <- MCBuffers
  MayPanic <- MCMayPanic
  PipeCap = 1
  MaxReads = 2
INVARIANTS
  TypeOK
  BufferExclusive
  StreamInOrder
  CountExact
PROPERTIES
  EndsOnlyByPanic
  Reclaimed
  Progress

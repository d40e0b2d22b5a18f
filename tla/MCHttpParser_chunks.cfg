SPECIFICATION Spec
CONSTANTS
  Streams <- MCStreams
  Limits <- MCLimits
  MaxChunk = 3
INVARIANTS
  ChunkingIrrelevant
  BufferBounded
  FramedOnce
CHECK_DEADLOCK FALSE

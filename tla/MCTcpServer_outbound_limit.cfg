SPECIFICATION Spec
CONSTANTS
  Workers = {w1}
  Clients = {c1}
  PoolThreads = {p1}
  MaxFd = 3
  QueueCapacity = 1
  MaxOutbound = 2
  ResponseSizes = {2}
  SendBuffer = 1
  MaxChunks = 3
  NoConn = NoConn
  NoJob = NoJob
INVARIANT
  OutboundBounded
CHECK_DEADLOCK FALSE

SPECIFICATION Spec
CONSTANTS
  Workers = {w1}
  Clients = {c1}
  PoolThreads = {p1}
  MaxFd = 3
  QueueCapacity = 1
  MaxOutbound = 2
  ResponseSizes = {1}
  SendBuffer = 1
  MaxChunks = 1
  NoConn = NoConn
  NoJob = NoJob
INVARIANT
  LoopOutlivesItsTasks
CHECK_DEADLOCK FALSE
